---- MODULE Spec2Model ----
(***************************************************************************)
(* Content-addressed store (cas/models.py, cas/types.py), its HTTP entry   *)
(* points (codereviewv2/cas_api.py) and the issue/patchset layer that      *)
(* links CAS entries into issues (codereviewv2/issue_api.py,               *)
(* codereviewv2/issue_models.py).                                          *)
(*                                                                         *)
(* Byte strings are TLA+ strings.  Digests are symbolic terms over their   *)
(* input, i.e. an ideal (collision-free) hash: sha256 over the             *)
(* concatenation of the update() arguments, hmac over (key, message).      *)
(* Library parsers (str.decode, json.loads) are tables over the content    *)
(* universe; every content of the universe is newline-free, so the line    *)
(* splitter yields the whole content as its single line.                   *)
(***************************************************************************)
EXTENDS Integers, Sequences, FiniteSets, TLC

\* Python's None, where a string may stand in its place (charset, proofs).
None == "<None>"

-----------------------------------------------------------------------------
(* Bounds *)

\* cap on stored CAS entries
MaxEntries == 3
\* cap on stored issues
MaxIssues == 1

\* the requests served concurrently
Procs == {"p1", "p2"}

-----------------------------------------------------------------------------
(* Digests *)

\* hashlib.sha256(...).hexdigest() over the concatenated update() pieces
Sha256Hex(s) == "sha256(" \o s \o ")"

\* hmac.new(key, msg, sha256).digest(), as a term over key and message
Hmac(key, msg) == <<"hmac", key, msg>>

\* hmac.new(key, msg, sha256).hexdigest(): every hex digest has one length
HmacHex(key, msg) == <<"hex", Hmac(key, msg)>>

\* hashlib.sha1('blob %d\0' % len(data)); update(data); digest()
GitHash(data) == <<"sha1", "blob", Len(data), data>>

-----------------------------------------------------------------------------
(* Content universe *)

PATCHSET_TYPE == "application/patchset+json"

\* two text files of equal length
FileA == "abc"
FileC == "xyz"
\* bytes that are neither valid UTF-8 nor ASCII
BadBytes == "<ff><fe>"

\* str.decode('utf-8') / str.decode('ascii') raise on these contents
NotUtf8 == {BadBytes}
NotAscii == {BadBytes}

\* CAS_ID.__init__
CAS_ID(csum, size, content_type, charset) ==
  [csum |-> csum, size |-> size, content_type |-> content_type,
   charset |-> IF charset \in {None, ""} THEN None ELSE charset]

\* the digest verify_async computes for (data, content_type, charset)
Checksum(data, content_type, charset) ==
  Sha256Hex(data \o ToString(Len(data)) \o content_type
                 \o (IF charset # None THEN charset ELSE ""))

\* the id a client computes for a content (tests: cas_id(data, type, cs))
IdOf(data, content_type, charset) ==
  CAS_ID(Checksum(data, content_type, charset), Len(data), content_type,
         charset)

IdA == IdOf(FileA, "text/plain", "utf-8")
IdC == IdOf(FileC, "text/plain", "utf-8")

\* patchset manifests (json documents); the table gives, for each, the
\* CAS_IDs of the old/new contents of its patches, in patch order
Manifest == "{patches:[rename A->C]}"
PlainJson == "{}"

ManifestRefs == [d \in {Manifest} |-> <<IdA, IdC>>]

\* json.loads succeeds on these
JsonDocs == {Manifest, PlainJson}

\* contents with the magic prefixes of default_content_types.image_*
GifData == {"GIF89a..."}
PngData == {"<89>PNG..."}
JpegData == {"<ff><d8>..."}
\* lxml.etree.fromstring succeeds on these
XmlDocs == {"<svg/>"}

-----------------------------------------------------------------------------
(* Type registry: cas/types.py, cas/default_content_types.py *)

\* utils.LazyLineSplitter(data, '\n') on newline-free data: the lengths of
\* the spans it records
LineLengths(data) == IF Len(data) = 0 THEN <<>> ELSE <<Len(data)>>

\* f(data) of each registered validator: TRUE iff f returns without raising
ValidatorAccepts(f, data) ==
  CASE f = "charset_utf8" -> data \notin NotUtf8
    [] f = "charset_ascii" -> data \notin NotAscii
    [] f = "text_plain" ->
         \A i \in 1..Len(LineLengths(data)) : LineLengths(data)[i] <= 300
    [] f = "image_gif" -> data \in GifData
    [] f = "image_png" -> data \in PngData
    [] f = "image_jpeg" -> data \in JpegData
    \* TYPE_MAP['application/xml'] is a KeyError: the keys are (kind, name)
    [] f = "image_svg_xml" -> FALSE
    [] f = "application_json" -> data \in JsonDocs
    [] f = "application_octet_stream" -> TRUE
    [] f = "application_xml" -> data \in XmlDocs
    \* issue_models.patchset_json: json parses, its only key is 'patches',
    \* the list is non-empty and every patch constructs
    [] f = "patchset_json" -> data \in JsonDocs /\ data \in DOMAIN ManifestRefs
    [] OTHER -> FALSE

\* the CAS_REFERENCES attribute of what f returns (PatchCollection only)
ValidatorRefs(f, data) ==
  IF f = "patchset_json" /\ data \in DOMAIN ManifestRefs
    THEN ManifestRefs[data] ELSE <<>>

\* wrapped.required_charsets
RequiredCharsets(f) ==
  CASE f = "text_plain" -> {"ascii", "utf-8"}
    [] f \in {"application_json", "application_xml", "patchset_json"}
         -> {"utf-8"}
    [] OTHER -> {}

\* default_content_types.TYPE_MAP once issue_models has registered the
\* patchset type in it
TYPE_MAP ==
  [k \in {<<"charset", "utf-8">>, <<"charset", "ascii">>,
          <<"data", "text/plain">>, <<"data", "image/gif">>,
          <<"data", "image/png">>, <<"data", "image/jpeg">>,
          <<"data", "image/svg+xml">>, <<"data", "application/json">>,
          <<"data", "application/octet-stream">>,
          <<"data", "application/xml">>, <<"data", PATCHSET_TYPE>>} |->
     CASE k = <<"charset", "utf-8">> -> "charset_utf8"
       [] k = <<"charset", "ascii">> -> "charset_ascii"
       [] k = <<"data", "text/plain">> -> "text_plain"
       [] k = <<"data", "image/gif">> -> "image_gif"
       [] k = <<"data", "image/png">> -> "image_png"
       [] k = <<"data", "image/jpeg">> -> "image_jpeg"
       [] k = <<"data", "image/svg+xml">> -> "image_svg_xml"
       [] k = <<"data", "application/json">> -> "application_json"
       [] k = <<"data", "application/octet-stream">>
            -> "application_octet_stream"
       [] k = <<"data", "application/xml">> -> "application_xml"
       [] k = <<"data", PATCHSET_TYPE>> -> "patchset_json"]

\* a registry derived from TYPE_MAP (CASTypeRegistry(TYPE_MAP) with one
\* entry overridden) that accepts the patchset type as plain json
UploadTypeMap ==
  [TYPE_MAP EXCEPT ![<<"data", PATCHSET_TYPE>>] = "application_json"]

\* the registries a caller of create_async passes as type_map (None is
\* replaced by TYPE_MAP in verify_async)
TypeMaps == {TYPE_MAP, UploadTypeMap}

\* result of a validation: err = "ok" or the exception raised; refs = the
\* CAS_REFERENCES of the validated form (computed before the reference check)
VResult(err, refs) == [err |-> err, refs |-> refs, msg |-> ""]

\* name_list[0] of the registration of f, with its prefix
PrimaryName(f) ==
  CASE f = "charset_utf8" -> <<"charset", "utf-8">>
    [] f = "charset_ascii" -> <<"charset", "ascii">>
    [] f = "text_plain" -> <<"data", "text/plain">>
    [] f = "image_gif" -> <<"data", "image/gif">>
    [] f = "image_png" -> <<"data", "image/png">>
    [] f = "image_jpeg" -> <<"data", "image/jpeg">>
    [] f = "image_svg_xml" -> <<"data", "image/svg+xml">>
    [] f = "application_json" -> <<"data", "application/json">>
    [] f = "application_octet_stream" -> <<"data", "application/octet-stream">>
    [] f = "application_xml" -> <<"data", "application/xml">>
    [] f = "patchset_json" -> <<"data", PATCHSET_TYPE>>

\* "%r" of a (prefix, name) pair
Repr(name) == "('" \o name[1] \o "', '" \o name[2] \o "')"

\* the exception f(data) raises inside the validator, with the detail it
\* carries about the data
InternalError(f, data) ==
  CASE f \in {"charset_utf8", "charset_ascii"} ->
         [err |-> "UnicodeDecodeError", msg |-> "can't decode " \o data]
    [] f \in {"text_plain", "image_gif", "image_png", "image_jpeg"} ->
         [err |-> "AssertionError", msg |-> ""]
    [] f = "image_svg_xml" ->
         [err |-> "KeyError", msg |-> "application/xml"]
    [] f = "application_json" ->
         [err |-> "ValueError", msg |-> "No JSON object could be decoded"]
    [] f = "application_xml" ->
         [err |-> "XMLSyntaxError", msg |-> "in " \o data]
    \* the nested application/json validator has already neutered its own
    \* failure; the assertions on the parsed dict carry no message
    [] f = "patchset_json" ->
         IF data \in JsonDocs
           THEN [err |-> "AssertionError", msg |-> ""]
           ELSE [err |-> "CASValidationError",
                 msg |-> "Invalid " \o Repr(<<"data", "application/json">>)]
    [] OTHER -> [err |-> "AssertionError", msg |-> ""]

\* a wrapper that lets the validator's own exception through
wrapped_reraise(f, data) ==
  IF ValidatorAccepts(f, data)
    THEN VResult("ok", ValidatorRefs(f, data))
    ELSE [err |-> InternalError(f, data).err, refs |-> <<>>,
          msg |-> InternalError(f, data).msg]

\* CASTypeRegistry.__call__.inner.wrapped: any exception of f is logged and
\* replaced by CASValidationError("Invalid %r" % (primary_name,))
wrapped(f, data) ==
  IF ValidatorAccepts(f, data)
    THEN VResult("ok", ValidatorRefs(f, data))
    ELSE [err |-> "CASValidationError", refs |-> <<>>,
          msg |-> "Invalid " \o Repr(PrimaryName(f))]

\* a reference check that is left out
RefCheck_skip(refs) == "ok"

\* the multi-yield at the end of validate_async: the list holds the bound
\* methods cid.entry_async (never called), and ndb's MultiFuture rejects a
\* dependent that is not a Future with a TypeError; an empty list yields []
\* and the assertion holds
RefCheck(refs) == IF refs = <<>> THEN "ok" ELSE "TypeError"

\* CASTypeRegistry.validate_async
validate_async(type_map, data, data_type, charset, check_refs) ==
  IF <<"data", data_type>> \notin DOMAIN type_map
    THEN VResult("CASUnknownDataType", <<>>)
  \* cas/exceptions.py defines neither CASUnknownCharset nor
  \* CASCharsetInadequate: both raise statements end in AttributeError
  ELSE IF charset # None /\ <<"charset", charset>> \notin DOMAIN type_map
    THEN VResult("AttributeError", <<>>)
  ELSE LET f == type_map[<<"data", data_type>>] IN
    IF RequiredCharsets(f) # {} /\ charset \notin RequiredCharsets(f)
      THEN VResult("AttributeError", <<>>)
    ELSE IF charset # None
            /\ wrapped(type_map[<<"charset", charset>>], data).err # "ok"
      THEN wrapped(type_map[<<"charset", charset>>], data)
    ELSE IF wrapped(f, data).err # "ok"
      THEN wrapped(f, data)
    ELSE IF check_refs
      THEN VResult(RefCheck(wrapped(f, data).refs), wrapped(f, data).refs)
    ELSE wrapped(f, data)

\* verify_async without the comparison of the digest with self.csum
verify_async_nocheck(id, data, type_map, check_refs) ==
  validate_async(type_map, data, id.content_type, id.charset, check_refs)

\* CAS_ID.verify_async
verify_async(id, data, type_map, check_refs) ==
  IF Checksum(data, id.content_type, id.charset) # id.csum
    THEN [VResult("CASValidationError", <<>>)
            EXCEPT !.msg = "Checksum mismatch"]
    ELSE validate_async(type_map, data, id.content_type, id.charset,
                        check_refs)

\* CAS_ID.__str__
CanonicalString(id) ==
  id.csum \o ":" \o ToString(id.size) \o ":" \o id.content_type
          \o (IF id.charset # None THEN ":" \o id.charset ELSE "")

-----------------------------------------------------------------------------
(* Inputs *)

IdM == IdOf(Manifest, PATCHSET_TYPE, "utf-8")

\* an id that overstates the size of FileA
IdA4 == [IdA EXCEPT !.size = 4]

\* upload requests, (CAS_ID named, body sent): each content under the id a
\* client computes for it, FileA under an id that overstates its size,
\* under ids declaring no charset, an unregistered type and an unregistered
\* charset, and FileC under the id of FileA
Requests ==
  {[id |-> IdA, data |-> FileA],
   [id |-> IdC, data |-> FileC],
   [id |-> IdM, data |-> Manifest],
   [id |-> IdOf(BadBytes, "text/plain", "utf-8"), data |-> BadBytes],
   [id |-> IdA4, data |-> FileA],
   [id |-> IdOf(FileA, "text/plain", None), data |-> FileA],
   [id |-> IdOf(FileA, "text/x-unknown", None), data |-> FileA],
   [id |-> IdOf(FileA, "text/plain", "latin-1"), data |-> FileA],
   [id |-> IdA, data |-> FileC]}

\* os.urandom(32) in the request served by process p: the draws of two
\* concurrent requests differ
urandom(p) == "salt-" \o p

\* the XSRF token of a request, the session secret of assert_xsrf
Secrets == {"xsrf1", "xsrf2"}

\* a checksum with one hex character flipped: the digest of nothing
Corrupt(csum) == "~" \o csum

\* ids presented to fetch_data and lookup
FetchIds ==
  {IdA, IdC, IdM, IdA4,
   [IdA EXCEPT !.csum = Corrupt(IdA.csum)],
   [IdA EXCEPT !.content_type = PATCHSET_TYPE],
   [IdM EXCEPT !.csum = Corrupt(IdM.csum)]}

\* content_type.startswith('text/')
IsText(content_type) == content_type \in {"text/plain", "text/x-unknown"}

\* CASEntries.put: the charset of an item, kept (default 'ascii') for text/
\* types only
PutCharset(content_type, charset) ==
  IF IsText(content_type)
    THEN (IF charset = None THEN "ascii" ELSE charset)
    ELSE None

\* CASEntries.put: the CAS_ID built for the item (csum, data, content_type,
\* charset); the size is len(data)
PutId(r) ==
  CAS_ID(r.id.csum, Len(r.data), r.id.content_type,
         PutCharset(r.id.content_type, r.id.charset))

\* the ids requests can name
KnownIds ==
  {r.id : r \in Requests} \cup {PutId(r) : r \in Requests} \cup FetchIds

\* str(cas_id) of the ids that occur, computed once
Keys == [id \in KnownIds |-> CanonicalString(id)]
Str(id) == Keys[id]

\* for each canonical string the id it parses to
ParsedIds ==
  [s \in {Str(id) : id \in KnownIds} |->
     CHOOSE id \in KnownIds : Str(id) = s]

\* CAS_ID.from_string on a canonical string: the four regex groups (content
\* types of the universe hold no ':')
from_string(s) == ParsedIds[s]

-----------------------------------------------------------------------------
(* State *)

VARIABLES
  entries,  \* datastore, kind CASEntry: key string -> [salt, salt_hash, git_hash]
  inline,   \* datastore, kind CASDataInline (child id 1): key string -> data
  pc,       \* per request process: the create transaction it has open
  issues,   \* datastore, kind Issue with its Patchset children
  commits,  \* history: key string -> number of committed creates
  last      \* the operation completed last and its outcome

vars == <<entries, inline, pc, issues, commits, last>>

Idle ==
  [st |-> "idle", key |-> "", salt |-> "", data |-> "", refs |-> <<>>,
   proofs |-> [given |-> FALSE, map |-> <<>>]]

NoProofs == [given |-> FALSE, map |-> <<>>]

NoLast ==
  [op |-> "", outcome |-> "", existed |-> FALSE, refs |-> <<>>,
   ids |-> <<>>, found |-> <<>>, issue |-> 0,
   flags |-> [children_proven |-> FALSE, proven |-> FALSE]]

\* the record of a completed operation
Done(op, outcome) == [NoLast EXCEPT !.op = op, !.outcome = outcome]

Init ==
  /\ entries = <<>>
  /\ inline = <<>>
  /\ pc = [p \in Procs |-> Idle]
  /\ issues = <<>>
  /\ commits = <<>>
  /\ last = NoLast

\* keys some open transaction is about to write
Pending == {pc[p].key : p \in {q \in Procs : pc[q].st = "txn"}}

-----------------------------------------------------------------------------
(* CAS_ID.create_async *)

\* a transaction body that puts the CASEntry only
TxnWrites_entry_only(key, salt, data) ==
  [entries |-> [k \in DOMAIN entries \cup {key} |->
                  IF k = key
                    THEN [salt |-> salt, salt_hash |-> Hmac(salt, data),
                          git_hash |-> GitHash(data)]
                    ELSE entries[k]],
   inline |-> inline]

\* the two puts of the transaction body: the CASEntry and its CASDataInline
\* child, committed together
TxnWrites(key, salt, data) ==
  [entries |-> [k \in DOMAIN entries \cup {key} |->
                  IF k = key
                    THEN [salt |-> salt, salt_hash |-> Hmac(salt, data),
                          git_hash |-> GitHash(data)]
                    ELSE entries[k]],
   inline |-> [k \in DOMAIN inline \cup {key} |->
                  IF k = key THEN data ELSE inline[k]]]

\* a commit that is never rejected
TxnCollides_never(key) == FALSE

\* commit of a transaction that read `key` as absent: the datastore rejects
\* it when the entity group was written since (retries=0: no second attempt)
TxnCollides(key) == key \in DOMAIN entries

\* the exception of the transaction body, or "ok" when it reaches its puts:
\* the key is read first, then the data is verified
TxnBody(id, data, type_map) ==
  \* raise exceptions.CASError(...): `exceptions` is framework.exceptions,
  \* which has no CASError
  IF Str(id) \in DOMAIN entries THEN "AttributeError"
  ELSE verify_async(id, data, type_map, TRUE).err

\* create_async up to the end of the transaction body: the salt is drawn,
\* the transaction reads the key, verifies the data and buffers its writes
create_begin(p, id, data, type_map) ==
  LET key == Str(id)
      v == verify_async(id, data, type_map, TRUE) IN
  /\ pc[p].st = "idle"
  /\ Cardinality(DOMAIN entries \cup Pending) < MaxEntries
  /\ IF TxnBody(id, data, type_map) # "ok"
       THEN /\ last' = [Done("create", TxnBody(id, data, type_map))
                          EXCEPT !.existed = key \in DOMAIN entries,
                                 !.refs = IF key \in DOMAIN entries
                                            THEN <<>> ELSE v.refs]
            /\ UNCHANGED pc
       ELSE /\ pc' = [pc EXCEPT ![p] = [st |-> "txn", key |-> key,
                                        salt |-> urandom(p), data |-> data,
                                        refs |-> v.refs,
                                        proofs |-> Idle.proofs]]
            /\ UNCHANGED last
  /\ UNCHANGED <<entries, inline, issues, commits>>

\* CASEntries.post_one: the CAS_ID is parsed from the URL
post_one(p) ==
  \E r \in Requests : create_begin(p, r.id, r.data, TYPE_MAP)

\* CASEntries.put, one item of the request body (each item is created in a
\* transaction of its own)
put(p) ==
  \E r \in Requests :
    \* assert charset in (None, 'utf-8', 'ascii')
    IF PutId(r).charset \notin {None, "utf-8", "ascii"}
      THEN /\ pc[p].st = "idle"
           /\ last' = Done("create", "AssertionError")
           /\ UNCHANGED <<entries, inline, pc, issues, commits>>
      ELSE create_begin(p, PutId(r), r.data, TYPE_MAP)

\* CAS_ID.create_async called with a registry of the caller's
create(p) ==
  \E r \in Requests : create_begin(p, r.id, r.data, UploadTypeMap)

\* the transaction commits
create_commit(p) ==
  /\ pc[p].st = "txn"
  /\ IF TxnCollides(pc[p].key)
       THEN /\ last' = [Done("create", "TransactionFailedError")
                          EXCEPT !.existed = TRUE, !.refs = pc[p].refs]
            /\ UNCHANGED <<entries, inline, commits>>
       ELSE /\ entries' = TxnWrites(pc[p].key, pc[p].salt, pc[p].data).entries
            /\ inline' = TxnWrites(pc[p].key, pc[p].salt, pc[p].data).inline
            /\ commits' = [k \in DOMAIN commits \cup {pc[p].key} |->
                             IF k = pc[p].key
                               THEN (IF k \in DOMAIN commits
                                       THEN commits[k] + 1 ELSE 1)
                               ELSE commits[k]]
            /\ last' = [Done("create", "ok") EXCEPT !.refs = pc[p].refs]
  /\ pc' = [pc EXCEPT ![p] = Idle]
  /\ UNCHANGED issues

-----------------------------------------------------------------------------
(* Readers: data_async, get_lookup, prove_ownership, prove_async *)

\* CAS_ID.raw_data_async followed by CAS_ID.data_async(type_map=None):
\* err = "ok" and the stored bytes, or the exception raised
data_async(id) ==
  IF Str(id) \notin DOMAIN inline
    THEN [err |-> "NotFound", data |-> "", refs |-> <<>>]
    ELSE LET v == verify_async(id, inline[Str(id)], TYPE_MAP, FALSE) IN
         [err |-> v.err,
          data |-> IF v.err = "ok" THEN inline[Str(id)] ELSE "",
          refs |-> v.refs]

fetch_data ==
  \E outcome \in {data_async(id).err : id \in FetchIds} :
    /\ last' = Done("fetch_data", outcome)
    /\ UNCHANGED <<entries, inline, pc, issues, commits>>

\* the dict comprehension of get_lookup over the ids i..Len(ids): a later id
\* with the same csum replaces an earlier one
RECURSIVE LookupFrom(_, _, _)
LookupFrom(ids, i, acc) ==
  IF i > Len(ids) THEN acc
  ELSE LET key == Str(ids[i]) IN
       IF key \notin DOMAIN entries THEN LookupFrom(ids, i + 1, acc)
       ELSE LookupFrom(ids, i + 1,
              [c \in DOMAIN acc \cup {from_string(key).csum} |->
                 IF c = from_string(key).csum THEN key ELSE acc[c]])

\* the id lists a lookup request carries
LookupLists ==
  {<<>>} \cup {<<a>> : a \in FetchIds} \cup {<<IdA, b>> : b \in FetchIds}

\* CASEntries.get_lookup: the ids asked for and the response, which maps the
\* csum of each entry found to that entry (named by its key); the outcome is
\* the number of entries of the response
get_lookup ==
  \E ids \in LookupLists :
    LET found == LookupFrom(ids, 1, <<>>) IN
    /\ last' = [Done("lookup", ToString(Cardinality(DOMAIN found)))
                  EXCEPT !.ids = ids, !.found = found]
    /\ UNCHANGED <<entries, inline, pc, issues, commits>>

\* a comparison of the lengths only
constant_time_equals_len(a, b) == Len(a) = Len(b)

\* utils.constant_time_equals
constant_time_equals(a, b) ==
  IF Len(a) # Len(b) THEN FALSE ELSE a = b

\* an ownership check that accepts the proof of any session
prove_ownership_unkeyed(entry, proof, secret) ==
  \E s \in Secrets : constant_time_equals(proof, HmacHex(s, entry.salt_hash))

\* CASEntry.prove_ownership for a request whose XSRF token is `secret`
prove_ownership(entry, proof, secret) ==
  constant_time_equals(proof, HmacHex(secret, entry.salt_hash))

\* proofs a client can present: computed for some stored entry under some
\* secret, or empty
Proofs ==
  {HmacHex(s, entries[k].salt_hash) : s \in Secrets, k \in DOMAIN entries}
    \cup {<<>>}

ProveOwnership ==
  \E result \in {prove_ownership(entries[k], proof, secret) :
                   k \in DOMAIN entries, secret \in Secrets, proof \in Proofs} :
    /\ last' = Done("prove_ownership", IF result THEN "True" ELSE "False")
    /\ UNCHANGED <<entries, inline, pc, issues, commits>>

\* the loop of prove_async over the fetched reference entries i..Len(refs)
RECURSIVE ProveLoop(_, _, _, _)
ProveLoop(refs, i, proofs, secret) ==
  IF i > Len(refs) THEN [err |-> "ok", named |-> ""]
  ELSE LET key == Str(refs[i]) IN
    \* entry_async yields None for a missing entry: None.cas_id
    IF key \notin DOMAIN entries
      THEN [err |-> "AttributeError", named |-> ""]
    ELSE LET csum == from_string(key).csum IN
      \* proofs[csum] with proofs = None
      IF ~proofs.given THEN [err |-> "TypeError", named |-> ""]
      ELSE IF csum \notin DOMAIN proofs.map
        THEN [err |-> "KeyError", named |-> csum]
      ELSE IF ~prove_ownership(entries[key], proofs.map[csum], secret)
        THEN [err |-> "Forbidden", named |-> csum]
      ELSE ProveLoop(refs, i + 1, proofs, secret)

\* CAS_ID.prove_async(proofs, action, include_self=False)
prove_async(id, proofs, secret) ==
  LET d == data_async(id) IN
  IF d.err # "ok" THEN [err |-> d.err, named |-> ""]
  \* data.CAS_REFERENCES on a validated form that is no PatchCollection
  ELSE IF TYPE_MAP[<<"data", id.content_type>>] # "patchset_json"
    THEN [err |-> "AttributeError", named |-> ""]
  ELSE ProveLoop(d.refs, 1, proofs, secret)

\* proofs a client can present for one reference: computed from the stored
\* entry under some secret, or from nothing when it is not stored
ProofsFor(id) ==
  IF Str(id) \in DOMAIN entries
    THEN {HmacHex(s, entries[Str(id)].salt_hash) : s \in Secrets}
    ELSE {<<>>}

\* the proof maps a request can carry: none, or for each of the checksums
\* of A and C a proof or no entry
ProofMaps ==
  {NoProofs} \cup
  {[given |-> TRUE, map |-> m] :
     m \in {<<>>} \cup {IdA.csum :> x : x \in ProofsFor(IdA)}
           \cup {IdC.csum :> y : y \in ProofsFor(IdC)}
           \cup {(IdA.csum :> x) @@ (IdC.csum :> y)
                   : x \in ProofsFor(IdA), y \in ProofsFor(IdC)}}

Prove ==
  \E outcome \in {prove_async(id, proofs, secret).err :
                    id \in {IdM, IdA}, proofs \in ProofMaps,
                    secret \in Secrets} :
    /\ last' = Done("prove", outcome)
    /\ UNCHANGED <<entries, inline, pc, issues, commits>>

-----------------------------------------------------------------------------
(* Issues: issue_api.Issues.post, issue_api.Patchsets.post *)

\* the 'patchset' field of a request body: absent, or the dict of a CAS_ID
Patchsets == {[given |-> FALSE, id |-> IdM], [given |-> TRUE, id |-> IdM],
              [given |-> TRUE, id |-> IdA]}

\* Issue.add_patchset_async, after the ownership future has resolved: the
\* Patchset gets id last_patchset + 1.  secret and proofs record the request
\* that attached it.
add_patchset(issue, id, secret, proofs) ==
  [issue EXCEPT
     !.patchsets = Append(@, [id |-> issue.last_patchset + 1,
                              data_ref |-> Str(id), hidden |-> FALSE,
                              secret |-> secret, proofs |-> proofs]),
     !.last_patchset = @ + 1,
     !.n_patchsets = @ + 1]

\* Issue.create_async: the entity as first put
NewIssue ==
  [patchsets |-> <<>>, last_patchset |-> 0, n_patchsets |-> 0,
   n_messages |-> 0, hidden |-> FALSE, tasks |-> 0]

\* the exception Issues.post ends in, or "ok"; `proven` is the outcome of the
\* ownership future, started right after CAS_ID.from_dict
IssuePostOutcome(patchset, proven, send_message, recipients) ==
  \* CAS_ID.from_dict(None)
  IF ~patchset.given THEN "BadData"
  ELSE IF ~recipients /\ send_message THEN "BadData"
  \* add_patchset_async: cas_id = yield cas_id_fut
  ELSE IF proven # "ok" THEN proven
  ELSE IF patchset.id.content_type # PATCHSET_TYPE THEN "BadData"
  \* CAS_IDProperty._to_base_type
  ELSE IF patchset.id.charset # "utf-8" THEN "AssertionError"
  ELSE "ok"

\* the outcomes of Issues.post for one patchset, proof map and session over
\* the other fields of the body
IssuePostOutcomes(patchset, proofs, secret) ==
  LET proven == prove_async(patchset.id, proofs, secret).err IN
  {IssuePostOutcome(patchset, proven, send_message, recipients) :
     send_message \in BOOLEAN, recipients \in BOOLEAN}

\* a handler whose writes reach the datastore as they are made
transactional_not(outcome, before, after) == after

\* @ndb.transactional_tasklet: the datastore after a handler that saw it as
\* `before`, made its writes up to `after` and ended in `outcome`; an
\* exception rolls the transaction back
transactional(outcome, before, after) ==
  IF outcome = "ok" THEN after ELSE before

\* the issues as Issues.post has written them when it ends in `outcome`:
\* nothing when CAS_ID.from_dict fails, the Issue put by create_async when
\* a later step fails, and the issue with its patchset, its message and its
\* notification task after flush_to_ds_async
IssuePostWrites(patchset, outcome, send_message, secret, proofs) ==
  IF ~patchset.given THEN issues
  ELSE IF outcome # "ok" THEN Append(issues, NewIssue)
  ELSE Append(issues,
         [add_patchset(NewIssue, patchset.id, secret, proofs)
            EXCEPT !.n_messages = IF send_message THEN 1 ELSE 0,
                   !.tasks = 1])

\* Issues.post, one transaction
CreateIssue ==
  /\ Len(issues) < MaxIssues
  /\ \/ \E patchset \in Patchsets :
          \E outcome \in
              UNION {IssuePostOutcomes(patchset, proofs, secret) :
                       proofs \in ProofMaps, secret \in Secrets} \ {"ok"} :
            /\ last' = Done("create_issue", outcome)
            /\ issues' = transactional(outcome, issues,
                           IssuePostWrites(patchset, outcome, FALSE, "",
                                           NoProofs))
     \/ \E patchset \in Patchsets, proofs \in ProofMaps, secret \in Secrets :
          LET proven == prove_async(patchset.id, proofs, secret).err IN
          \E send_message \in BOOLEAN, recipients \in BOOLEAN :
            /\ IssuePostOutcome(patchset, proven, send_message, recipients)
                 = "ok"
            /\ last' = Done("create_issue", "ok")
            /\ issues' = transactional("ok", issues,
                           IssuePostWrites(patchset, "ok", send_message,
                                           secret, proofs))
  /\ UNCHANGED <<entries, inline, pc, commits>>

\* Patchsets.post: `issue, _ = yield safe_get(key.parent())` unpacks the one
\* entity safe_get returns, a TypeError; the transaction rolls back.  The
\* proofs and the secret of the request do not reach the outcome.
AddPatchset ==
  \E i \in 1..MaxIssues, patchset \in Patchsets :
    LET outcome == IF ~patchset.given THEN "BadData"
                   ELSE IF i > Len(issues) THEN "NotFound"
                   ELSE "TypeError" IN
    /\ last' = Done("add_patchset", outcome)
    /\ UNCHANGED <<entries, inline, pc, issues, commits>>

\* how often one patchset is deleted again
MaxRepeats == 2

\* safe_get(key) of an issue: key.get_async() returns the entity whatever
\* its `hidden`, and the read permission asked by _post_get_hook is
\* Issue.can_read, which does not look at `hidden` (the reader is one the
\* issue is not private to)
safe_get_issue(i) == IF i > Len(issues) THEN "NotFound" ELSE "ok"

\* Issues.get_one
GetIssue ==
  \E i \in 1..(MaxIssues + 1) :
    /\ last' = [Done("get_issue", safe_get_issue(i)) EXCEPT !.issue = i]
    /\ UNCHANGED <<entries, inline, pc, issues, commits>>

\* Issues.delete_one: HideableModelMixin.delete_async sets hidden and the
\* issue is written back
DeleteIssue ==
  \E i \in 1..(MaxIssues + 1) :
    LET outcome == safe_get_issue(i) IN
    /\ last' = [Done("delete_issue", outcome) EXCEPT !.issue = i]
    /\ issues' = transactional(outcome, issues,
                   IF outcome = "ok"
                     THEN [issues EXCEPT ![i].hidden = TRUE] ELSE issues)
    /\ UNCHANGED <<entries, inline, pc, commits>>

\* Issue.del_patchset_async on the patchset at position j, followed by
\* Patchset.delete_async
del_patchset(issue, j) ==
  [issue EXCEPT !.n_patchsets = @ - 1, !.patchsets[j].hidden = TRUE]

\* Patchsets.delete_one: both entities come from safe_get; Patchset.can_read
\* asks the issue and does not look at `hidden` either
DeletePatchset ==
  \E i \in 1..MaxIssues, j \in 1..2 :
    LET outcome == IF i > Len(issues) THEN "NotFound"
                   ELSE IF j > Len(issues[i].patchsets) THEN "NotFound"
                   ELSE "ok" IN
    /\ outcome = "ok" => issues[i].n_patchsets > 1 - MaxRepeats
    /\ last' = [Done("delete_patchset", outcome) EXCEPT !.issue = i]
    /\ issues' = transactional(outcome, issues,
                   IF outcome = "ok"
                     THEN [issues EXCEPT ![i] = del_patchset(issues[i], j)]
                     ELSE issues)
    /\ UNCHANGED <<entries, inline, pc, commits>>

Next ==
  \/ \E p \in Procs : post_one(p)
  \/ \E p \in Procs : put(p)
  \/ \E p \in Procs : create(p)
  \/ \E p \in Procs : create_commit(p)
  \/ fetch_data
  \/ get_lookup
  \/ ProveOwnership
  \/ Prove
  \/ CreateIssue
  \/ AddPatchset

Spec == Init /\ [][Next]_vars

\* the life of an issue: the uploads and the requests on issues and their
\* patchsets
IssueNext ==
  \/ \E p \in Procs : create(p)
  \/ \E p \in Procs : create_commit(p)
  \/ CreateIssue
  \/ AddPatchset
  \/ GetIssue
  \/ DeleteIssue
  \/ DeletePatchset

IssueSpec == Init /\ [][IssueNext]_vars

-----------------------------------------------------------------------------
(* The ownership flags of a CAS_ID instance over its prove_async calls *)

\* CAS_ID.__init__: the ownership flags of a new instance
NewFlags == NoLast.flags

\* the references prove_async verifies: those of the data, then with
\* include_self the entry of the id itself
ProveRefs(id, refs, include_self) ==
  IF include_self THEN Append(refs, id) ELSE refs

\* CAS_ID.prove_async(proofs, action, include_self) from the result `d` of
\* its data_async() to the end of its loop
prove_async_self(id, d, proofs, secret, include_self) ==
  IF d.err # "ok" THEN [err |-> d.err, named |-> ""]
  ELSE IF TYPE_MAP[<<"data", id.content_type>>] # "patchset_json"
    THEN [err |-> "AttributeError", named |-> ""]
  ELSE ProveLoop(ProveRefs(id, d.refs, include_self), 1, proofs, secret)

\* flags that are set however the loop ended
prove_flags_always(flags, err, include_self) ==
  [children_proven |-> TRUE, proven |-> include_self]

\* the end of prove_async: an exception of the loop leaves before the two
\* assignments, otherwise children_proven = True and proven = include_self
prove_flags(flags, err, include_self) ==
  IF err = "ok"
    THEN [children_proven |-> TRUE, proven |-> include_self]
    ELSE flags

\* the proof maps of ProofMaps, with or without a proof for `id` itself
\* (read only when include_self)
ProofMapsWith(id) ==
  ProofMaps \cup
  {[given |-> TRUE, map |-> (id.csum :> own) @@ proofs.map] :
     own \in ProofsFor(id), proofs \in ProofMaps \ {NoProofs}}

\* the flags of the instance a prove call is made on: the instance of the
\* call before when that was a prove call on the same id, a new one
\* otherwise
ProveSelf(id) ==
  IF last.op = "prove_async" /\ last.ids = <<id>> THEN last.flags ELSE NewFlags

\* one call of prove_async on a CAS_ID instance
ProveInstance ==
  \E id \in {IdM, IdA}, include_self \in BOOLEAN :
    LET d == data_async(id) IN
    \E err \in {prove_async_self(id, d, proofs, secret, include_self).err :
                  proofs \in IF include_self THEN ProofMapsWith(id)
                                               ELSE ProofMaps,
                  secret \in Secrets} :
      /\ last' = [Done("prove_async", err)
                    EXCEPT !.ids = <<id>>,
                           !.flags = prove_flags(ProveSelf(id), err,
                                                 include_self)]
      /\ UNCHANGED <<entries, inline, pc, issues, commits>>

ProveNext ==
  \/ \E p \in Procs : create(p)
  \/ \E p \in Procs : create_commit(p)
  \/ ProveInstance

ProveSpec == Init /\ [][ProveNext]_vars

-----------------------------------------------------------------------------
(* Issues.post against the garbage collector.  prove_async is
   @ndb.non_transactional: it reads the CAS entries outside the transaction
   of Issues.post, which commits when the handler returns.  A collector
   pass can run between the two. *)

\* Issues.post up to its return: the proofs are verified against the
\* entries as they are now and the writes are buffered
PostBegin(p) ==
  /\ pc[p].st = "idle"
  /\ Len(issues) < MaxIssues
  /\ \E patchset \in Patchsets, proofs \in ProofMaps, secret \in Secrets :
       LET proven == prove_async(patchset.id, proofs, secret).err
           outcome == IssuePostOutcome(patchset, proven, FALSE, TRUE) IN
       IF outcome = "ok"
         THEN /\ pc' = [pc EXCEPT ![p] = [Idle EXCEPT !.st = "post",
                                            !.key = Str(patchset.id),
                                            !.salt = secret,
                                            !.proofs = proofs]]
              /\ UNCHANGED last
         ELSE /\ last' = Done("create_issue", outcome)
              /\ UNCHANGED pc
  /\ UNCHANGED <<entries, inline, issues, commits>>

\* the commit of the transaction of Issues.post: the Issue and its Patchset
\* are written; the transaction read no CAS entry, so no write to one
\* makes it collide
PostCommit(p) ==
  /\ pc[p].st = "post"
  /\ Len(issues) < MaxIssues
  /\ issues' = Append(issues,
                 [add_patchset(NewIssue, from_string(pc[p].key), pc[p].salt,
                               pc[p].proofs) EXCEPT !.tasks = 1])
  /\ pc' = [pc EXCEPT ![p] = Idle]
  /\ last' = Done("create_issue", "ok")
  /\ UNCHANGED <<entries, inline, commits>>

\* the keys of the entries a committed Patchset refers to: its data_ref and
\* the CAS_IDs in the manifest stored under it
ReferencedBy(patchset) ==
  {patchset.data_ref} \cup
  {Str(ManifestRefs[Manifest][n]) : n \in 1..Len(ManifestRefs[Manifest])}

\* the keys some committed document refers to
Referenced ==
  UNION {UNION {ReferencedBy(issues[i].patchsets[j]) :
                  j \in 1..Len(issues[i].patchsets)} :
           i \in 1..Len(issues)}

\* one pass of the collector over the entries `garbage`: each is removed
\* with its data
GarbageCollectCASEntries(store, garbage) ==
  [k \in DOMAIN store \ garbage |-> store[k]]

\* a collector pass: it removes entries that no committed document refers
\* to (an entry is created at most MaxRepeats times)
GarbageCollect ==
  \E garbage \in SUBSET (DOMAIN entries \ Referenced) :
    /\ garbage # {}
    /\ \A k \in garbage : commits[k] < MaxRepeats
    /\ entries' = GarbageCollectCASEntries(entries, garbage)
    /\ inline' = GarbageCollectCASEntries(inline, garbage)
    /\ last' = Done("garbage_collect", "ok")
    /\ UNCHANGED <<pc, issues, commits>>

GcNext ==
  \/ \E p \in Procs : create(p)
  \/ \E p \in Procs : create_commit(p)
  \/ \E p \in Procs : PostBegin(p)
  \/ \E p \in Procs : PostCommit(p)
  \/ GarbageCollect

GcSpec == Init /\ [][GcNext]_vars


-----------------------------------------------------------------------------
(* Calls of the functions that read no stored state: a call starts with its
   arguments in `last` and ends with its result there *)

\* the result of a call that has not returned yet
Running == "<running>"

Call(op, args) ==
  [op |-> op, args |-> args, returned |-> FALSE, result |-> Running]

\* the call in `last` after it has returned `result`
Return(result) == [last EXCEPT !.returned = TRUE, !.result = result]

\* byte strings handed to validate
ValidateData ==
  {FileA, BadBytes, "not json", ""} \cup JsonDocs \cup GifData \cup PngData
    \cup JpegData \cup XmlDocs

\* content types and charsets a caller names
DataTypes ==
  {k[2] : k \in {x \in DOMAIN TYPE_MAP : x[1] = "data"}} \cup {"text/x-unknown"}
Charsets == {None, "utf-8", "ascii", "latin-1"}

\* the calls type_map.validate_async(data, data_type, charset, check_refs)
ValidateCalls ==
  {Call("validate", a) :
     a \in [type_map : TypeMaps, data : ValidateData, data_type : DataTypes,
            charset : Charsets, check_refs : BOOLEAN]}

Validate ==
  /\ last.op = "validate" /\ ~last.returned
  /\ last' = Return(validate_async(last.args.type_map, last.args.data,
                                   last.args.data_type, last.args.charset,
                                   last.args.check_refs))
  /\ UNCHANGED <<entries, inline, pc, issues, commits>>

-----------------------------------------------------------------------------
(* CAS_ID text and dict forms, character by character: cas/models.py.  A str
   is a sequence of one-character strings; a Python value is a record of
   its type name and its contents. *)

CSUM_SIZE == 32

HexChars == {"0", "1", "2", "3", "4", "5", "6", "7", "8", "9",
             "a", "b", "c", "d", "e", "f", "A", "B", "C", "D", "E", "F"}
DigitChars == <<"0", "1", "2", "3", "4", "5", "6", "7", "8", "9">>
UpperChars == {"A", "B", "C", "D", "E", "F", "P", "T", "U"}

\* str.lower() on one character and on a str
LowerChar(c) ==
  CASE c = "A" -> "a" [] c = "B" -> "b" [] c = "C" -> "c" [] c = "D" -> "d"
    [] c = "E" -> "e" [] c = "F" -> "f" [] c = "P" -> "p" [] c = "T" -> "t"
    [] c = "U" -> "u" [] OTHER -> c
Lower(str) == [i \in 1..Len(str) |-> LowerChar(str[i])]

\* Python values
IntV(n) == [t |-> "int", n |-> n]
StrV(str) == [t |-> "str", s |-> str]
NoneV == [t |-> "NoneType"]

\* truth value of a Python value
Truthy(x) ==
  CASE x.t = "int" -> x.n # 0
    [] x.t = "str" -> x.s # <<>>
    [] OTHER -> FALSE

\* '%s' % n for an int n
RECURSIVE Dec(_)
Dec(n) ==
  IF n < 0 THEN <<"-">> \o Dec(-n)
  ELSE IF n < 10 THEN <<DigitChars[n + 1]>>
  ELSE Dec(n \div 10) \o <<DigitChars[(n % 10) + 1]>>

\* int(str) for a str of decimal digits
DigitValue(c) == CHOOSE d \in 0..9 : DigitChars[d + 1] = c
RECURSIVE ParseInt(_)
ParseInt(str) ==
  IF str = <<>> THEN 0
  ELSE 10 * ParseInt(SubSeq(str, 1, Len(str) - 1)) + DigitValue(str[Len(str)])

\* str.decode('hex'): the bytes, written as lower-case hex pairs, or a
\* TypeError for an odd length or a character that is no hex digit
DecodeHex(str) ==
  IF Len(str) % 2 = 1 \/ \E i \in 1..Len(str) : str[i] \notin HexChars
    THEN [err |-> "TypeError", bytes |-> <<>>]
    ELSE [err |-> "ok", bytes |-> Lower(str)]

\* self.charset of a CAS_ID without a charset: __init__ stores None for None
\* and for the empty str alike
NoCharset == <<>>

\* a CAS_ID that could not be made
NoId(err) == [err |-> err, id |-> None]

\* CAS_ID.__init__(csum, size, content_type, charset) on Python values; csum
\* is a str of bytes
New(csum, size, content_type, charset) ==
  IF ~(Truthy(csum) /\ Truthy(size) /\ Truthy(content_type))
    THEN NoId("AssertionError")
  ELSE IF csum.t # "str" THEN NoId("TypeError")
  ELSE IF Len(csum.s) # 2 * CSUM_SIZE THEN NoId("AssertionError")
  ELSE IF size.t # "int" THEN NoId("AssertionError")
  ELSE IF content_type.t # "str" THEN NoId("AssertionError")
  ELSE IF charset.t \notin {"str", "NoneType"} THEN NoId("AssertionError")
  ELSE [err |-> "ok",
        id |-> [csum |-> csum.s, size |-> size.n,
                content_type |-> Lower(content_type.s),
                charset |-> IF Truthy(charset) THEN Lower(charset.s)
                                               ELSE NoCharset]]

\* CAS_ID.to_dict
to_dict(id) ==
  IF id.charset # NoCharset
    THEN [k \in {"csum", "size", "content_type", "charset"} |->
            CASE k = "csum" -> StrV(id.csum) [] k = "size" -> IntV(id.size)
              [] k = "content_type" -> StrV(id.content_type)
              [] k = "charset" -> StrV(id.charset)]
    ELSE [k \in {"csum", "size", "content_type"} |->
            CASE k = "csum" -> StrV(id.csum) [] k = "size" -> IntV(id.size)
              [] k = "content_type" -> StrV(id.content_type)]

\* CAS_ID.__str__
to_string(id) ==
  id.csum \o <<":">> \o Dec(id.size) \o <<":">> \o id.content_type
          \o (IF id.charset # NoCharset THEN <<":">> \o id.charset ELSE <<>>)

\* the end of the longest run of characters of `class` (or, with inside =
\* FALSE, of characters outside it) that starts at position i; i - 1 when
\* the run is empty
RECURSIVE RunEnd(_, _, _, _)
RunEnd(str, i, class, inside) ==
  IF i <= Len(str) /\ ((str[i] \in class) = inside)
    THEN RunEnd(str, i + 1, class, inside)
    ELSE i - 1

\* CAS_ID.REGEX.match(str): ([0-9a-fA-F]{64}):(\d+):([^:]*)(?::(.*))? with
\* its four groups, group 4 being None when the optional part is absent
Match(str) ==
  LET w == 2 * CSUM_SIZE
      d == RunEnd(str, w + 2, {DigitChars[i] : i \in 1..10}, TRUE)
      t == RunEnd(str, d + 2, {":"}, FALSE) IN
  IF /\ Len(str) >= w + 1
     /\ \A i \in 1..w : str[i] \in HexChars
     /\ str[w + 1] = ":"
     /\ d >= w + 2
     /\ d + 1 <= Len(str) /\ str[d + 1] = ":"
    THEN [matched |-> TRUE,
          groups |-> <<StrV(SubSeq(str, 1, w)), StrV(SubSeq(str, w + 2, d)),
                       StrV(SubSeq(str, d + 2, t)),
                       IF t < Len(str) THEN StrV(SubSeq(str, t + 2, Len(str)))
                                       ELSE NoneV>>]
    ELSE [matched |-> FALSE, groups |-> <<>>]

\* CAS_ID.from_string
from_string_re(str) ==
  LET match == Match(str) IN
  IF ~match.matched THEN NoId("AssertionError")
  ELSE New(StrV(DecodeHex(match.groups[1].s).bytes),
           IntV(ParseInt(match.groups[2].s)), match.groups[3], match.groups[4])

\* CAS_ID.from_dict; dct is a dict (a function on its keys) or NoneV
from_dict(dct) ==
  LET made ==
        IF dct = NoneV THEN NoId("TypeError")
        ELSE IF "csum" \notin DOMAIN dct THEN NoId("KeyError")
        ELSE IF dct["csum"].t # "str" THEN NoId("AttributeError")
        ELSE IF DecodeHex(dct["csum"].s).err # "ok" THEN NoId("TypeError")
        ELSE IF "size" \notin DOMAIN dct THEN NoId("KeyError")
        ELSE IF "content_type" \notin DOMAIN dct THEN NoId("KeyError")
        ELSE New(StrV(DecodeHex(dct["csum"].s).bytes), dct["size"],
                 dct["content_type"],
                 IF "charset" \in DOMAIN dct THEN dct["charset"] ELSE NoneV)
  IN IF made.err = "ok" THEN made ELSE NoId("BadData")

\* inputs of the conversions
MaxSize == 3
\* str * n
Repeat(str, n) == [i \in 1..(n * Len(str)) |-> str[((i - 1) % Len(str)) + 1]]
HexAB == Repeat(<<"a", "b">>, CSUM_SIZE)
Hex09 == Repeat(<<"0", "9">>, CSUM_SIZE)
HexUpper == Repeat(<<"A", "b">>, CSUM_SIZE)
HexShort == SubSeq(HexAB, 1, 2 * CSUM_SIZE - 2)
HexOdd == SubSeq(HexAB, 1, 2 * CSUM_SIZE - 1)
NotHex == <<"g">> \o SubSeq(HexAB, 1, 2 * CSUM_SIZE - 1)
TextPlain == <<"t", "e", "x", "t", "/", "p", "l", "a", "i", "n">>
ImagePng == <<"i", "m", "a", "g", "e", "/", "p", "n", "g">>
Utf8 == <<"u", "t", "f", "-", "8">>
Sizes == 0..MaxSize \cup {10, 300}

\* the four fields as a CAS_ID holds them
IdFields == [csum : {HexAB, Hex09}, size : Sizes,
             content_type : {TextPlain, ImagePng}, charset : {NoCharset, Utf8}]

\* str(cas_id) parsed again
RoundTripCalls == {Call("round_trip", [id |-> a]) : a \in IdFields}
RoundTrip ==
  /\ last.op = "round_trip" /\ ~last.returned
  /\ last' = Return(from_string_re(to_string(last.args.id)))
  /\ UNCHANGED <<entries, inline, pc, issues, commits>>

\* text forms handed to from_string: well formed ones, and ones with a
\* checksum of the wrong width, a checksum that is not hex, a size that is
\* no integer, no size, and no content type
Join(csum, size, rest) == csum \o <<":">> \o size \o <<":">> \o rest
IdStrings ==
  {Join(c, z, r) : c \in {HexAB, HexUpper, HexShort, HexOdd, NotHex},
                   z \in {<<"3">>, <<"0">>, <<"0", "7">>, <<"x">>, <<>>},
                   r \in {TextPlain, TextPlain \o <<":">> \o Utf8,
                          <<"T", "E", "X", "T">>, <<>>}}
    \cup {HexAB, HexAB \o <<":">>, HexAB \o <<":", "3">>, <<>>}
ParseStringCalls ==
  {Call("from_string", [string_id |-> str]) : str \in IdStrings}
ParseString ==
  /\ last.op = "from_string" /\ ~last.returned
  /\ last' = Return(from_string_re(last.args.string_id))
  /\ UNCHANGED <<entries, inline, pc, issues, commits>>

\* dict forms handed to from_dict; Absent marks a key the dict lacks
Absent == [t |-> "absent"]
Item(k, x) == IF x = Absent THEN <<>> ELSE k :> x
Dict(csum, size, content_type, charset) ==
  Item("csum", csum) @@ Item("size", size)
    @@ Item("content_type", content_type) @@ Item("charset", charset)
IdDicts ==
  {Dict(c, z, t, ch) :
     c \in {StrV(HexAB), StrV(HexShort), StrV(NotHex), IntV(5), Absent},
     z \in {IntV(3), IntV(0), IntV(-1), StrV(<<"3">>), NoneV, Absent},
     t \in {StrV(TextPlain), StrV(<<>>), IntV(1), Absent},
     ch \in {Absent, StrV(Utf8), IntV(1)}} \cup {NoneV}
ParseDictCalls == {Call("from_dict", [dct |-> dct]) : dct \in IdDicts}
ParseDict ==
  /\ last.op = "from_dict" /\ ~last.returned
  /\ last' = Return(from_dict(last.args.dct))
  /\ UNCHANGED <<entries, inline, pc, issues, commits>>

-----------------------------------------------------------------------------
(* Lines of text: framework/utils.py LazyLineSplitter and the text/plain
   validator, on text given character by character *)

\* data.find(lineending, start) for a one-character line ending, positions
\* counted from 1; 0 when there is none
Find(data, lineending, start) ==
  IF \E i \in start..Len(data) : data[i] = lineending
    THEN CHOOSE i \in start..Len(data) :
           /\ data[i] = lineending
           /\ \A j \in start..(i - 1) : data[j] # lineending
    ELSE 0

\* LazyLineSplitter.__init__: the spans appended to _offsets from `start`
\* on, each as <<first, last>> position; a span ends with its line ending
\* when it has one
RECURSIVE Offsets(_, _, _)
Offsets(data, lineending, start) ==
  IF start > Len(data) THEN <<>>
  ELSE LET end == Find(data, lineending, start) IN
    IF end = 0 THEN << <<start, Len(data)>> >>
    ELSE << <<start, end>> >> \o Offsets(data, lineending, end + 1)

\* LazyLineSplitter.__getitem__ for every index: the lines
LazyLineSplitter(data, lineending) ==
  LET offsets == Offsets(data, lineending, 1) IN
  [i \in 1..Len(offsets) |-> SubSeq(data, offsets[i][1], offsets[i][2])]

\* default_content_types.text_plain: TRUE iff the assertion holds
text_plain(data) ==
  LET splitter == LazyLineSplitter(data, "\n") IN
  \A i \in 1..Len(splitter) : Len(splitter[i]) <= 300

\* texts of one or two lines of 'a', the last with or without its newline
MaxLines == 2
LineSizes == {0, 1, 299, 300, 301, 400}
TextLine(n, terminated) ==
  Repeat(<<"a">>, n) \o (IF terminated THEN <<"\n">> ELSE <<>>)
RECURSIVE Texts(_)
Texts(n) ==
  IF n = 0 THEN {<<>>}
  ELSE {TextLine(k, TRUE) \o t : k \in LineSizes, t \in Texts(n - 1)}
         \cup {TextLine(k, FALSE) : k \in LineSizes}
TextPlainCalls == {Call("text_plain", [data |-> d]) : d \in Texts(MaxLines)}
ValidateText ==
  /\ last.op = "text_plain" /\ ~last.returned
  /\ last' = Return(IF text_plain(last.args.data)
                      THEN [err |-> "ok", msg |-> ""]
                      ELSE [err |-> "CASValidationError",
                            msg |-> "Invalid " \o Repr(<<"data", "text/plain">>)])
  /\ UNCHANGED <<entries, inline, pc, issues, commits>>

-----------------------------------------------------------------------------
(* Pairs of diffable contents: codereviewv2/diff.py *)

\* a Diffable, of which only the path matters here
Diffable(path) == [t |-> "Diffable", path |-> path]
Paths == {"a.txt", "b.txt"}
Actions == {"modify", "add", "copy", "delete", "rename"}

\* the action __init__ goes on with: the one given, or the one inferred
\* from the sides present (None stays None when there is no side)
InferredAction(old, new, action) ==
  IF action # None THEN action
  ELSE IF old # NoneV /\ new # NoneV THEN "modify"
  ELSE IF old # NoneV THEN "delete"
  ELSE IF new # NoneV THEN "add"
  ELSE None

\* a pair that could not be made
NoPair(err) == [err |-> err, old |-> NoneV, new |-> NoneV, action |-> None]

\* __init__ without the comparison of the paths of a modify
DiffablePair_anypath(old, new, action) ==
  LET a == InferredAction(old, new, action)
      made == [err |-> "ok", old |-> old, new |-> new, action |-> a] IN
  IF old.t \notin {"Diffable", "NoneType"} THEN NoPair("AssertionError")
  ELSE IF new.t \notin {"Diffable", "NoneType"} THEN NoPair("AssertionError")
  ELSE IF a \notin Actions THEN NoPair("AssertionError")
  ELSE IF a = "modify"
    THEN (IF old = NoneV \/ new = NoneV THEN NoPair("AttributeError")
          ELSE made)
  ELSE IF a \in {"copy", "rename"}
    THEN (IF old = NoneV \/ new = NoneV THEN NoPair("AttributeError")
          ELSE IF old.path # new.path THEN made
          ELSE NoPair("AssertionError"))
  ELSE IF a = "add"
    THEN (IF new # NoneV /\ old = NoneV THEN made
          ELSE NoPair("AssertionError"))
  ELSE (IF old # NoneV /\ new = NoneV THEN made
        ELSE NoPair("AssertionError"))

\* DiffablePair.__init__(old, new, action)
DiffablePair(old, new, action) ==
  LET a == InferredAction(old, new, action)
      made == [err |-> "ok", old |-> old, new |-> new, action |-> a] IN
  IF old.t \notin {"Diffable", "NoneType"} THEN NoPair("AssertionError")
  ELSE IF new.t \notin {"Diffable", "NoneType"} THEN NoPair("AssertionError")
  ELSE IF a \notin Actions THEN NoPair("AssertionError")
  ELSE IF a = "modify"
    \* old.path of None is an AttributeError
    THEN (IF old = NoneV \/ new = NoneV THEN NoPair("AttributeError")
          ELSE IF old.path = new.path THEN made
          ELSE NoPair("AssertionError"))
  ELSE IF a \in {"copy", "rename"}
    THEN (IF old = NoneV \/ new = NoneV THEN NoPair("AttributeError")
          ELSE IF old.path # new.path THEN made
          ELSE NoPair("AssertionError"))
  ELSE IF a = "add"
    THEN (IF new # NoneV /\ old = NoneV THEN made
          ELSE NoPair("AssertionError"))
  ELSE (IF old # NoneV /\ new = NoneV THEN made
        ELSE NoPair("AssertionError"))

\* the sides and actions a caller passes: Patch.from_dict takes them from
\* the patch of a patchset, get_one_diff2 passes two new sides and None
Sides == {NoneV, IntV(1)} \cup {Diffable(p) : p \in Paths}
PairCalls ==
  {Call("DiffablePair", a) :
     a \in [old : Sides, new : Sides, action : Actions \cup {None, "patch"}]}
Construct ==
  /\ last.op = "DiffablePair" /\ ~last.returned
  /\ last' = Return(DiffablePair(last.args.old, last.args.new,
                                 last.args.action))
  /\ UNCHANGED <<entries, inline, pc, issues, commits>>

\* diff.LazyLineSplitter(data, lineending): `self._offsets.append(start, end)`
\* passes two arguments to list.append, a TypeError, as soon as a line
\* ending is found; without one the only line is the whole of the data
DiffLines(data, lineending) ==
  IF data = <<>> THEN [err |-> "ok", lines |-> <<>>]
  ELSE IF Find(data, lineending, 1) # 0
    THEN [err |-> "TypeError", lines |-> <<>>]
  ELSE [err |-> "ok", lines |-> <<data>>]

\* difflib.SequenceMatcher(None, a, b).get_opcodes() for sequences of at
\* most one line, as <<tag, i1, i2, j1, j2>>
Opcodes(a, b) ==
  IF a = b THEN (IF a = <<>> THEN <<>> ELSE << <<"equal", 0, 1, 0, 1>> >>)
  ELSE IF a = <<>> THEN << <<"insert", 0, 0, 0, 1>> >>
  ELSE IF b = <<>> THEN << <<"delete", 0, 1, 0, 0>> >>
  ELSE << <<"replace", 0, 1, 0, 1>> >>

Max(x, y) == IF x >= y THEN x ELSE y
Min(x, y) == IF x <= y THEN x ELSE y

\* get_grouped_opcodes(n) for these: the single opcode, an equal one cut to
\* n lines of context at its start and at its end, is a group unless it is
\* an equal one
GroupedOpcodes(a, b, n) ==
  LET codes == IF Opcodes(a, b) = <<>> THEN << <<"equal", 0, 1, 0, 1>> >>
                                       ELSE Opcodes(a, b)
      c == codes[1]
      first == IF c[1] = "equal"
                 THEN <<c[1], Max(c[2], c[3] - n), c[3], Max(c[4], c[5] - n), c[5]>>
                 ELSE c
      only == IF first[1] = "equal"
                THEN <<first[1], first[2], Min(first[3], first[2] + n),
                       first[4], Min(first[5], first[4] + n)>>
                ELSE first
  IN IF only[1] = "equal" THEN <<>> ELSE << <<only>> >>

\* DiffablePair._diff_body(n, nl) of a modify pair with the given contents,
\* run to its end: the kinds of the lines it yields.  Neither Diffable nor
\* Content has the attribute `data` the loops over the lines read, so a
\* group stops after its three header lines
_diff_body(old, new, n) ==
  LET a == DiffLines(old, "\n")
      b == DiffLines(new, "\n") IN
  IF a.err # "ok" THEN [err |-> a.err, out |-> <<>>]
  ELSE IF b.err # "ok" THEN [err |-> b.err, out |-> <<>>]
  ELSE IF GroupedOpcodes(a.lines, b.lines, n) = <<>>
    THEN [err |-> "ok", out |-> <<>>]
  ELSE [err |-> "AttributeError", out |-> <<"---", "+++", "@@">>]

\* contents and context sizes
MaxContext == 3
Contents ==
  {<<>>, <<"a">>, <<"b">>, <<"a", "b">>, <<"a", "\n">>, <<"a", "\n", "b">>,
   <<"a", "\n", "b", "\n">>, <<"\n">>}
DiffCalls ==
  {Call("_diff_body", a) :
     a \in [old : Contents, new : Contents, n : 0..MaxContext]}
DiffBody ==
  /\ last.op = "_diff_body" /\ ~last.returned
  /\ last' = Return(_diff_body(last.args.old, last.args.new, last.args.n))
  /\ UNCHANGED <<entries, inline, pc, issues, commits>>

-----------------------------------------------------------------------------
(* The patches of a patchset and their links: Patchset.patches_async in
   codereviewv2/issue_models.py.  A patch is named by its id; NoPatch stands
   for None in a link and for a None item of a collection. *)

NoPatch == 0

\* Patch.__init__ for the patch with this id
NewPatch(id) ==
  [id |-> id, comments |-> <<>>, next |-> NoPatch, prev |-> NoPatch,
   next_with_comment |-> NoPatch, prev_with_comment |-> NoPatch]

\* IDIndexedCollection.skip_append(id, value) on the _items of a collection
\* of comments, a comment being named by its id: None items fill the ids
\* skipped
skip_append(items, id) ==
  [k \in 1..Max(id, Len(items) + 1) |->
     IF k <= Len(items) THEN items[k]
     ELSE IF k = id THEN id ELSE NoPatch]

\* comments_by_patch[id]: the ids of the comments of the patch, in the order
\* of self.comments; comments[c] is the patch_id of comment c
RECURSIVE comments_by_patch(_, _, _)
comments_by_patch(comments, id, c) ==
  IF c > Len(comments) THEN <<>>
  ELSE (IF comments[c] = id THEN <<c>> ELSE <<>>)
         \o comments_by_patch(comments, id, c + 1)

\* the loop `for c in comments_by_patch[p.id]: p.comments.skip_append(c.id, c)`
RECURSIVE SkipAppendAll(_, _)
SkipAppendAll(items, cs) ==
  IF cs = <<>> THEN items
  ELSE SkipAppendAll(skip_append(items, Head(cs)), Tail(cs))

\* bool(p.comments): IDIndexedCollection.__len__ counts the items that are
\* not None
HasComments(p) == \E k \in 1..Len(p.comments) : p.comments[k] # NoPatch

\* a pass in which every patch becomes the last one with a comment
Threaded_always(p, with_comment) == p.id

\* `if p.comments: prev_with_comment = p` and the same for next: the last
\* patch with a comment after p has been visited
Threaded(p, with_comment) == IF HasComments(p) THEN p.id ELSE with_comment

\* the first loop of patches_async from patch i on
RECURSIVE ForwardPass(_, _, _, _, _)
ForwardPass(patches, comments, i, prev, prev_with_comment) ==
  IF i > Len(patches) THEN patches
  ELSE LET p == [patches[i] EXCEPT
                   !.prev = prev,
                   !.prev_with_comment = prev_with_comment,
                   !.comments = SkipAppendAll(patches[i].comments,
                                  comments_by_patch(comments, patches[i].id, 1))]
       IN ForwardPass([patches EXCEPT ![i] = p], comments, i + 1, p.id,
                      Threaded(p, prev_with_comment))

\* an iteration in the order of the ids again
Reversed_not(seq) == seq

\* reversed(all_patches.values())
Reversed(seq) == [k \in 1..Len(seq) |-> seq[Len(seq) + 1 - k]]

\* the second loop of patches_async over the positions still to visit
RECURSIVE BackwardPass(_, _, _, _)
BackwardPass(patches, order, next, next_with_comment) ==
  IF order = <<>> THEN patches
  ELSE LET i == Head(order)
           p == [patches[i] EXCEPT !.next = next,
                                   !.next_with_comment = next_with_comment]
       IN BackwardPass([patches EXCEPT ![i] = p], Tail(order), p.id,
                       Threaded(p, next_with_comment))

\* Patchset.patches_async for a patchset of n patches and the given comments
patches_async(n, comments) ==
  LET all_patches == [i \in 1..n |-> NewPatch(i)]
      linked == ForwardPass(all_patches, comments, 1, NoPatch, NoPatch) IN
  BackwardPass(linked, Reversed([i \in 1..n |-> i]), NoPatch, NoPatch)

\* patchsets of up to MaxPatches patches (patchset_json refuses an empty
\* list) with up to MaxComments comments, each on one of the patches
MaxPatches == 4
MaxComments == 3
PatchesCalls ==
  {Call("patches_async", [n |-> n, comments |-> cs]) :
     <<n, cs>> \in UNION {{<<m, c>> : c \in UNION {[1..k -> 1..m] : k \in 0..MaxComments}}
                           : m \in 1..MaxPatches}}
Materialize ==
  /\ last.op = "patches_async" /\ ~last.returned
  /\ last' = Return(patches_async(last.args.n, last.args.comments))
  /\ UNCHANGED <<entries, inline, pc, issues, commits>>

-----------------------------------------------------------------------------
(* Git diffs of a pair: DiffablePair.generate_git_diff in codereviewv2/diff.py.
   The output is the sequence of the lines yielded, each as a tuple of its
   keyword and the values printed in it. *)

\* a Content: a Diffable with its mode and the data of its CAS entry
Content(path, mode, data) ==
  [t |-> "Diffable", path |-> path, mode |-> mode, data |-> data]
Modes == {"100644", "100755"}
ContentData == {<<"a">>, <<"b">>, <<"a", "\n">>}
Contents2 ==
  {Content(p, m, d) : p \in Paths, m \in Modes, d \in ContentData}

\* '0' * 40
ZeroHash == Repeat(<<"0">>, 40)

\* seq_matcher.ratio() as 'similarity index %d%%' prints it, for sequences
\* of at most one line: 2.0 * matches / (len(a) + len(b)), and 1.0 for two
\* empty sequences
Similarity(a, b) == IF a = b THEN 100 ELSE 0

\* the output so far and the exception that ended it ("ok" for none)
Out(err, out) == [err |-> err, out |-> out]

\* DiffablePair.generate_git_diff(n), run to its end.  self.old.lines is
\* read first, an AttributeError on the None side of an add or a delete;
\* `csum` is an attribute of no Diffable, so every index line ends the
\* output with an AttributeError
generate_git_diff(pair, n) ==
  IF pair.old = NoneV \/ pair.new = NoneV THEN Out("AttributeError", <<>>)
  ELSE
    LET old == pair.old
        new == pair.new
        a == DiffLines(old.data, "\n")
        b == DiffLines(new.data, "\n")
        modes == IF old.mode = new.mode
                   THEN << <<"old mode", old.mode>>, <<"new mode", new.mode>> >>
                   ELSE <<>>
        head == << <<"diff --git", old.path, new.path>> >> IN
    IF a.err # "ok" THEN Out(a.err, <<>>)
    ELSE IF b.err # "ok" THEN Out(b.err, <<>>)
    ELSE IF pair.action = "modify" THEN Out("AttributeError", head \o modes)
    ELSE
      LET similarity == Similarity(a.lines, b.lines)
          lines == head \o modes
                     \o << <<"similarity index", similarity>>,
                           <<pair.action \o " from", old.path>>,
                           <<pair.action \o " to", new.path>> >> IN
      IF similarity < 100 THEN Out("AttributeError", lines)
      ELSE Out("ok", lines)

\* the pairs that construct, and the diff of each
GitDiffPairs ==
  {a \in [old : Contents2 \cup {NoneV}, new : Contents2 \cup {NoneV},
          action : Actions \cup {None}] :
     DiffablePair(a.old, a.new, a.action).err = "ok"}
GitDiffCalls == {Call("generate_git_diff", a) : a \in GitDiffPairs}
GitDiff ==
  /\ last.op = "generate_git_diff" /\ ~last.returned
  /\ last' = Return(generate_git_diff(
                      DiffablePair(last.args.old, last.args.new,
                                   last.args.action), 3))
  /\ UNCHANGED <<entries, inline, pc, issues, commits>>

-----------------------------------------------------------------------------
(* IDIndexedCollection in codereviewv2/issue_models.py.  `items` is the list
   _items; an item is named by the id it was given, NoPatch is a None item. *)

\* IDIndexedCollection.__len__: the number of items that are not None
len(items) == Cardinality({k \in 1..Len(items) : items[k] # NoPatch})

\* IDIndexedCollection.__getitem__
getitem(items, id) ==
  IF id < 1 \/ id > len(items) THEN [err |-> "NotFound", item |-> NoPatch]
  ELSE IF items[id] = NoPatch THEN [err |-> "NotFound", item |-> NoPatch]
  ELSE [err |-> "ok", item |-> items[id]]

\* IDIndexedCollection.__iter__
iter(items) == {k \in 1..Len(items) : items[k] # NoPatch}

\* a collection: its _items, and the ids given to an item and not deleted
\* since
Collection(items, live) == [err |-> "ok", items |-> items, live |-> live]

\* IDIndexedCollection(name, items): the item at position k has id k, as
\* IssueMetadata.drafts numbers them
Construct_items(items) == Collection(items, iter(items))

\* IDIndexedCollection.append(value), value being named by the id returned
append(c) ==
  Collection(Append(c.items, Len(c.items) + 1),
             c.live \cup {Len(c.items) + 1})

\* IDIndexedCollection.skip_append(id, value) with its __setitem__, which
\* refuses an id that is not the next one
skip_append_id(c, id) ==
  IF id <= Len(c.items) THEN [c EXCEPT !.err = "FrameworkException"]
  ELSE Collection(skip_append(c.items, id), c.live \cup {id})

\* IDIndexedCollection.__delitem__: `del self._items[id - 1]`
delitem(c, id) ==
  IF getitem(c.items, id).err # "ok" THEN [c EXCEPT !.err = "NotFound"]
  ELSE Collection([k \in 1..(Len(c.items) - 1) |->
                     IF k < id THEN c.items[k] ELSE c.items[k + 1]],
                  c.live \ {c.items[id]})

\* one operation on a collection; an operation that raised leaves it as it
\* was
ApplyOp(c, o) ==
  LET r == IF o.op = "append" THEN append(c)
           ELSE IF o.op = "skip_append" THEN skip_append_id(c, o.id)
           ELSE delitem(c, o.id) IN
  Collection(r.items, r.live)

\* the operations o[i..] in order
RECURSIVE ApplyOps(_, _, _)
ApplyOps(c, ops, i) ==
  IF i > Len(ops) THEN c ELSE ApplyOps(ApplyOp(c, ops[i]), ops, i + 1)

\* collections are built from up to MaxItems items, each live or None, and
\* go through up to MaxOps operations on the ids 1..MaxItems + 1
MaxItems == 2
MaxOps == 2
CollectionOps ==
  {[op |-> "append", id |-> 0]} \cup
  {[op |-> o, id |-> id] : o \in {"skip_append", "del"},
                           id \in 1..(MaxItems + 1)}
CollectionLists ==
  UNION {{[k \in 1..n |-> IF k \in live THEN k ELSE NoPatch] :
            live \in SUBSET (1..n)} : n \in 0..MaxItems}
CollectionCalls ==
  {Call("IDIndexedCollection", [items |-> items, ops |-> ops]) :
     items \in CollectionLists,
     ops \in UNION {[1..n -> CollectionOps] : n \in 0..MaxOps}}
UseCollection ==
  /\ last.op = "IDIndexedCollection" /\ ~last.returned
  /\ last' = Return(ApplyOps(Construct_items(last.args.items),
                             last.args.ops, 1))
  /\ UNCHANGED <<entries, inline, pc, issues, commits>>

-----------------------------------------------------------------------------
(* The diff of a whole patchset: Patchsets._full_diff_generator in
   codereviewv2/issue_api.py, with mode 'git'.  A patch is a pair with its
   id; the data of a side stands for its lines, the size of its CAS_ID is
   given apart. *)

BUFFER_LIMIT == 10485760

\* Patch.get_data_futures: self.old.data_async ... on a side that is None
get_data_futures(p) ==
  IF p.old = NoneV \/ p.new = NoneV THEN "AttributeError" ELSE "ok"

\* Patch.size: self.old.size + self.new.size
PatchSize(p) == p.sizes.old + p.sizes.new

\* sum(p.size for p in preloading)
RECURSIVE SumSizes(_)
SumSizes(preloading) ==
  IF preloading = <<>> THEN 0
  ELSE PatchSize(Head(preloading)) + SumSizes(Tail(preloading))

\* the generator between two steps: the two deques, the patches whose
\* fetch has started, the size of the window each time a patch was added
\* to it, and the diffs emitted with the patches fetched by then
Generator(patches, preloading, fetched, window, out) ==
  [err |-> "ok", patches |-> patches, preloading |-> preloading,
   fetched |-> fetched, window |-> window, out |-> out]

\* `while patches and preloading_size < cls.BUFFER_LIMIT`
RECURSIVE Preload(_, _)
Preload(g, preloading_size) ==
  IF g.patches = <<>> \/ preloading_size >= BUFFER_LIMIT THEN g
  ELSE LET p == Head(g.patches) IN
    IF get_data_futures(p) # "ok"
      THEN [g EXCEPT !.err = get_data_futures(p), !.patches = Tail(@)]
    ELSE Preload(Generator(Tail(g.patches), Append(g.preloading, p),
                           g.fetched \cup {p.id},
                           Append(g.window, preloading_size), g.out),
                 preloading_size + PatchSize(p))

\* `while patches or preloading`, run to the end of the generator or to
\* the exception that ends it
RECURSIVE _full_diff_generator(_)
_full_diff_generator(g) ==
  IF g.patches = <<>> /\ g.preloading = <<>> THEN g
  ELSE
    LET loaded == IF g.patches # <<>>
                    THEN Preload(g, SumSizes(g.preloading)) ELSE g IN
    IF loaded.err # "ok" THEN loaded
    ELSE
      LET patch == Head(loaded.preloading)
          diff == generate_git_diff(
                    DiffablePair(patch.old, patch.new, patch.action), 3)
          emitted == Append(loaded.out,
                            [id |-> patch.id, lines |-> diff.out,
                             fetched |-> loaded.fetched]) IN
      IF diff.err # "ok"
        THEN [loaded EXCEPT !.err = diff.err, !.preloading = Tail(@),
                            !.out = emitted]
        ELSE _full_diff_generator(
               Generator(loaded.patches, Tail(loaded.preloading),
                         loaded.fetched, loaded.window, emitted))

\* patchsets of up to MaxQueue patches: a rename without a change, a
\* modification and an added file, the CAS_ID of each side of one byte or
\* of half the buffer
MaxQueue == 3
QueuePairs ==
  {[old |-> Content("a.txt", "100644", <<"a">>),
    new |-> Content("b.txt", "100644", <<"a">>), action |-> "rename"],
   [old |-> Content("a.txt", "100644", <<"a">>),
    new |-> Content("a.txt", "100644", <<"b">>), action |-> "modify"],
   [old |-> NoneV,
    new |-> Content("a.txt", "100644", <<"a">>), action |-> "add"]}
QueueSizes == {1, BUFFER_LIMIT \div 2}
QueuePatches ==
  {[old |-> a.old, new |-> a.new, action |-> a.action,
    sizes |-> [old |-> s, new |-> s]] : a \in QueuePairs, s \in QueueSizes}
\* patches_async.itervalues(): the patches in the order of their ids
Queue(ps) ==
  [k \in 1..Len(ps) |->
     [id |-> k, old |-> ps[k].old, new |-> ps[k].new,
      action |-> ps[k].action, sizes |-> ps[k].sizes]]
FullDiffCalls ==
  {Call("_full_diff_generator", [patches |-> Queue(ps)]) :
     ps \in UNION {[1..n -> QueuePatches] : n \in 0..MaxQueue}}
FullDiff ==
  /\ last.op = "_full_diff_generator" /\ ~last.returned
  /\ last' = Return(_full_diff_generator(
                      Generator(last.args.patches, <<>>, {}, <<>>, <<>>)))
  /\ UNCHANGED <<entries, inline, pc, issues, commits>>

FnCalls == ValidateCalls
  \cup RoundTripCalls
  \cup ParseStringCalls
  \cup ParseDictCalls
  \cup TextPlainCalls
  \cup PairCalls
  \cup DiffCalls
  \cup PatchesCalls
  \cup GitDiffCalls
  \cup CollectionCalls
  \cup FullDiffCalls

FnInit ==
  /\ entries = <<>>
  /\ inline = <<>>
  /\ pc = [p \in Procs |-> Idle]
  /\ issues = <<>>
  /\ commits = <<>>
  /\ last \in FnCalls

FnNext ==
  \/ Validate
  \/ RoundTrip
  \/ ParseString
  \/ ParseDict
  \/ ValidateText
  \/ Construct
  \/ DiffBody
  \/ Materialize
  \/ GitDiff
  \/ UseCollection
  \/ FullDiff

FnSpec == FnInit /\ [][FnNext]_vars

-----------------------------------------------------------------------------
(* Properties *)

\* the store as the two kinds CASEntry and CASDataInline
store == <<entries, inline>>

\* the digest a stored key promises for the bytes held under it
KeyDigest(k, data) ==
  Sha256Hex(data \o ToString(Len(data)) \o from_string(k).content_type
            \o (IF from_string(k).charset # None THEN from_string(k).charset
                                                 ELSE ""))

\* C1: creation happens at most once per CAS_ID: no key is ever committed
\* twice, and a create that finds (or races with) an existing entry ends in
\* a CASError ('already exists').
C1_CreateAtMostOnce ==
  /\ \A k \in DOMAIN commits : commits[k] <= 1
  /\ (last.op = "create" /\ last.existed) => last.outcome = "CASError"

\* C2: the checksum of every stored entry's key is the SHA-256 hex digest of
\* its stored data, the decimal length of that data, the content type and,
\* when present, the charset.
C2_ChecksumOfStoredData ==
  \A k \in DOMAIN inline :
    /\ k \in DOMAIN entries
    /\ from_string(k).csum = KeyDigest(k, inline[k])

\* C2 witness: an entry is stored and a create whose data does not hash to
\* its id has just been turned down
C2_Witness ==
  /\ Str(IdA) \in DOMAIN inline
  /\ last.op = "create" /\ last.outcome = "CASValidationError"
  /\ ~last.existed

\* C3: salt, salt_hash and data of a stored entry never change, whatever
\* operation runs next.
C3_WriteOnce ==
  [][\A k \in DOMAIN entries :
       /\ k \in DOMAIN entries' /\ k \in DOMAIN inline'
       /\ entries'[k].salt = entries[k].salt
       /\ entries'[k].salt_hash = entries[k].salt_hash
       /\ inline'[k] = inline[k]]_vars

\* C3 witness: a second create of a stored id, carrying another salt, has
\* reached its commit
C3_Witness ==
  /\ last.op = "create" /\ last.existed
  /\ last.outcome = "TransactionFailedError"
  /\ \E k \in DOMAIN entries : entries[k].salt # urandom("p2")

\* the references of the manifest a Patchset points at
PatchsetRefs(ps) ==
  IF ps.data_ref \in DOMAIN inline /\ inline[ps.data_ref] \in DOMAIN ManifestRefs
    THEN ManifestRefs[inline[ps.data_ref]]
    ELSE <<>>

\* C4: every Patchset attached to an Issue was attached by a request that
\* carried, for every entry of the manifest's CAS_REFERENCES, the proof
\* HMAC(session secret, salt_hash) of that entry.
C4_AttachedOnlyWithProofs ==
  \A i \in 1..Len(issues) : \A j \in 1..Len(issues[i].patchsets) :
    LET ps == issues[i].patchsets[j] IN
    /\ ps.data_ref \in DOMAIN inline
    /\ inline[ps.data_ref] \in DOMAIN ManifestRefs
    /\ ps.proofs.given
    /\ \A n \in 1..Len(PatchsetRefs(ps)) :
         LET ref == PatchsetRefs(ps)[n] IN
         /\ Str(ref) \in DOMAIN entries
         /\ ref.csum \in DOMAIN ps.proofs.map
         /\ ps.proofs.map[ref.csum] =
              HmacHex(ps.secret, Hmac(entries[Str(ref)].salt, inline[Str(ref)]))

\* C4 witness: an issue holds a patchset whose manifest has references
C4_Witness ==
  /\ Len(issues) >= 1
  /\ Len(issues[1].patchsets) = 1
  /\ Len(PatchsetRefs(issues[1].patchsets[1])) = 2
  /\ last.op = "create_issue" /\ last.outcome = "ok"

\* C5: prove_ownership answers True exactly when the proof is the hex
\* HMAC-SHA256 of the entry's salt_hash under the request's session secret,
\* answers the same for the same arguments, and changes no stored state.
C5_ProveOwnershipExact ==
  /\ [](\A k \in DOMAIN entries : \A secret \in Secrets : \A proof \in Proofs :
          prove_ownership(entries[k], proof, secret)
            <=> proof = <<"hex", <<"hmac", secret,
                                    <<"hmac", entries[k].salt, inline[k]>>>>>>)
  /\ [][last'.op = "prove_ownership" => store' = store]_vars

\* C5 witness: a proof has been accepted while proofs made under the other
\* secret and for another entry exist
C5_Witness ==
  /\ last.op = "prove_ownership" /\ last.outcome = "True"
  /\ Cardinality(DOMAIN entries) >= 2

\* the references of the manifest, in order, whose proof is missing or wrong
Unproved(refs, proofs, secret) ==
  {n \in 1..Len(refs) :
     \/ ~proofs.given
     \/ refs[n].csum \notin DOMAIN proofs.map
     \/ proofs.map[refs[n].csum] #
          HmacHex(secret, entries[Str(refs[n])].salt_hash)}

\* C6: with the manifest and all its references stored, prove fails with
\* Forbidden naming the first reference whose proof is missing or wrong
\* (a request with no proofs at all included), and succeeds otherwise.
C6_ForbiddenNamesFirstUnproved ==
  (/\ Str(IdM) \in DOMAIN inline
   /\ \A n \in 1..Len(ManifestRefs[Manifest]) :
        Str(ManifestRefs[Manifest][n]) \in DOMAIN entries)
  => \A proofs \in ProofMaps : \A secret \in Secrets :
       LET refs == ManifestRefs[Manifest]
           bad == Unproved(refs, proofs, secret)
           r == prove_async(IdM, proofs, secret) IN
       IF bad = {} THEN r.err = "ok"
       ELSE /\ r.err = "Forbidden"
            /\ r.named = refs[CHOOSE n \in bad : \A m \in bad : n <= m].csum

\* C7: create is all-or-nothing: the store never holds a CASEntry without
\* its data record or a data record without its CASEntry; a step that
\* changes the store is a create that succeeded and added both records of
\* one new key.
C7_AllOrNothing ==
  /\ [](DOMAIN entries = DOMAIN inline)
  /\ [][store' # store =>
          /\ last'.op = "create" /\ last'.outcome = "ok"
          /\ \E k \in DOMAIN entries' \ DOMAIN entries :
               /\ DOMAIN entries' = DOMAIN entries \cup {k}
               /\ DOMAIN inline' = DOMAIN inline \cup {k}
               /\ k \notin DOMAIN inline
               /\ \A o \in DOMAIN entries :
                    entries'[o] = entries[o] /\ inline'[o] = inline[o]]_vars

\* C7 witness: with an entry stored, a create whose validation fails has
\* returned and another create is inside its transaction
C7_Witness ==
  /\ last.op = "create" /\ last.outcome = "AttributeError" /\ ~last.existed
  /\ DOMAIN entries # {}
  /\ \E p \in Procs : pc[p].st = "txn"

\* ids that differ from the id of key k in the checksum only
ChecksumChanged(k) ==
  {id \in FetchIds :
     /\ id.csum # from_string(k).csum
     /\ [id EXCEPT !.csum = from_string(k).csum] = from_string(k)}

\* C8 as stated: fetch_data fails with NotFound or a checksum mismatch for
\* every id obtained from a stored entry's id by changing its checksum.
C8_AnyChangedChecksumFails ==
  \A k \in DOMAIN inline : \A id \in ChecksumChanged(k) :
    data_async(id).err \in {"NotFound", "CASValidationError"}

\* C8: fetch_data returns content only when an entry is stored under the
\* exact canonical string of the id and the stored bytes hash to its
\* checksum; for an id obtained from a stored entry's id by changing its
\* checksum it fails with NotFound or a checksum mismatch unless the changed
\* id is itself the id of another stored entry, whose own data it then
\* returns: it never returns the data of the entry the id was derived from.
C8_FetchByExactId ==
  /\ \A id \in FetchIds :
       data_async(id).err = "ok" =>
         /\ Str(id) \in DOMAIN inline
         /\ data_async(id).data = inline[Str(id)]
         /\ id.csum = KeyDigest(Str(id), inline[Str(id)])
  /\ \A k \in DOMAIN inline : \A id \in ChecksumChanged(k) :
       IF Str(id) \in DOMAIN inline
         THEN data_async(id).data # inline[k]
         ELSE data_async(id).err \in {"NotFound", "CASValidationError"}

\* C8 witness: two entries that differ in the checksum only are stored, next
\* to ids with a corrupted checksum, and a fetch has failed with NotFound
C8_Witness ==
  /\ Str(IdA) \in DOMAIN inline /\ Str(IdC) \in DOMAIN inline
  /\ \E id \in ChecksumChanged(Str(IdA)) : Str(id) \notin DOMAIN inline
  /\ last.op = "fetch_data" /\ last.outcome = "NotFound"

\* C9: the size field of every stored entry's id equals the length of its
\* stored data, entries created through post_one included.
C9_SizeIsDataLength ==
  \A k \in DOMAIN inline : from_string(k).size = Len(inline[k])

\* C10: a create of content whose validator exposes CAS_REFERENCES enters
\* its commit only when every referenced entry is stored; otherwise it fails
\* and nothing is stored.
C10_ReferencesStoredFirst ==
  /\ [][\A p \in Procs :
          (pc[p].st = "idle" /\ pc'[p].st = "txn") =>
            \A n \in 1..Len(pc'[p].refs) :
              Str(pc'[p].refs[n]) \in DOMAIN entries]_vars
  /\ [][(/\ last' # last
         /\ last'.op = "create" /\ last'.refs # <<>>
         /\ \E n \in 1..Len(last'.refs) :
              Str(last'.refs[n]) \notin DOMAIN entries)
        => last'.outcome # "ok" /\ store' = store]_vars

\* C10 witness: a create of the manifest has failed while one of its
\* references was stored and the other was not
C10_Witness ==
  /\ last.op = "create" /\ last.refs = ManifestRefs[Manifest]
  /\ last.outcome # "ok"
  /\ Str(IdA) \in DOMAIN entries /\ Str(IdC) \notin DOMAIN entries

\* the registry entry whose function fails on a call of validate that gets
\* as far as running the charset decoder and the type validator, or None
FailingEntry(a) ==
  IF <<"data", a.data_type>> \notin DOMAIN a.type_map THEN None
  ELSE IF a.charset # None /\ <<"charset", a.charset>> \notin DOMAIN a.type_map
    THEN None
  ELSE IF RequiredCharsets(a.type_map[<<"data", a.data_type>>]) # {}
          /\ a.charset \notin RequiredCharsets(a.type_map[<<"data", a.data_type>>])
    THEN None
  ELSE IF a.charset # None
          /\ ~ValidatorAccepts(a.type_map[<<"charset", a.charset>>], a.data)
    THEN a.type_map[<<"charset", a.charset>>]
  ELSE IF ~ValidatorAccepts(a.type_map[<<"data", a.data_type>>], a.data)
    THEN a.type_map[<<"data", a.data_type>>]
  ELSE None

\* C11: when the charset decoder or the type validator fails, the caller of
\* validate observes a CASValidationError whose message is "Invalid" and the
\* (kind, name) the failing function was registered under, whatever the
\* data and the validator's own exception were.
C11_ValidatorFailureIsGeneric ==
  (last.op = "validate" /\ last.returned
     /\ FailingEntry(last.args) # None) =>
    /\ last.result.err = "CASValidationError"
    /\ last.result.msg =
         "Invalid ('" \o PrimaryName(FailingEntry(last.args))[1] \o "', '"
                      \o PrimaryName(FailingEntry(last.args))[2] \o "')"

\* C11 witness: the utf-8 decoder has failed on undecodable bytes
C11_Witness ==
  /\ last.op = "validate"
  /\ last.args.data = BadBytes /\ last.args.charset = "utf-8"
  /\ last.args.data_type = "text/plain"
  /\ last.returned
  /\ last.result.err = "CASValidationError"

\* The four fields of an id are well formed: a checksum of 64 lower-case hex
\* digits, a non-negative size, a content type and a charset that is text
\* or absent.
ValidFields(a) ==
  /\ Len(a.csum) = 2 * CSUM_SIZE
  /\ \A i \in 1..Len(a.csum) : a.csum[i] \in HexChars \ UpperChars
  /\ a.size >= 0
  /\ a.content_type # <<>>

\* C12: for every valid (checksum, size, content_type, charset), with any
\* non-negative size and the charset present or absent, parsing the string
\* form gives an id equal in all four fields, and its string form is the
\* same string again.
C12_StringRoundTrip ==
  (last.op = "round_trip" /\ last.returned /\ ValidFields(last.args.id)) =>
    /\ last.result.err = "ok"
    /\ last.result.id = last.args.id
    /\ to_string(last.result.id) = to_string(last.args.id)

\* The text handed to from_string is malformed: it is no
\* <64 hex>:<digits>:<content type>[:<charset>] with a content type.
MalformedString(str) ==
  \/ ~Match(str).matched
  \/ Match(str).groups[3].s = <<>>

\* The dict handed to from_dict is malformed: checksum missing, no text, not
\* hex or of the wrong width; size missing or no integer; content type
\* missing or no text; charset neither text nor absent.
MalformedDict(dct) ==
  \/ dct = NoneV
  \/ "csum" \notin DOMAIN dct
  \/ dct["csum"].t # "str"
  \/ DecodeHex(dct["csum"].s).err # "ok"
  \/ Len(dct["csum"].s) # 2 * CSUM_SIZE
  \/ "size" \notin DOMAIN dct
  \/ dct["size"].t # "int"
  \/ "content_type" \notin DOMAIN dct
  \/ dct["content_type"].t # "str"
  \/ ("charset" \in DOMAIN dct /\ dct["charset"].t # "str")

\* C13: parsing a malformed id, in its string or its dict form, ends in
\* BadData: no other exception escapes and no CAS_ID is produced.
C13_MalformedIsBadData ==
  /\ (last.op = "from_string" /\ last.returned /\ MalformedString(last.args.string_id))
       => last.result = NoId("BadData")
  /\ (last.op = "from_dict" /\ last.returned /\ MalformedDict(last.args.dct))
       => last.result = NoId("BadData")

\* The dict half of C13 alone.
C13_MalformedDictIsBadData ==
  (last.op = "from_dict" /\ last.returned /\ MalformedDict(last.args.dct))
    => last.result = NoId("BadData")

\* C14: validate rejects in a fixed order: an unregistered content type
\* gives CASUnknownDataType whatever the charset and the data; otherwise a
\* type with required charsets and a charset that is absent or none of them
\* gives the charset-inadequacy error, before any decoder or validator runs.
C14_RejectionOrder ==
  (last.op = "validate" /\ last.returned) =>
    LET a == last.args
        known == <<"data", a.data_type>> \in DOMAIN a.type_map
        required == RequiredCharsets(a.type_map[<<"data", a.data_type>>]) IN
    /\ ~known => last.result.err = "CASUnknownDataType"
    /\ (known /\ required # {} /\ a.charset \notin required)
         => last.result.err = "CASCharsetInadequate"

\* The lengths of the contents of the lines of a text: the characters
\* between line endings, the line ending itself not counted.
RECURSIVE ContentLengths(_, _)
ContentLengths(data, from) ==
  IF from > Len(data) THEN <<>>
  ELSE IF \E i \in from..Len(data) : data[i] = "\n"
    THEN LET nl == CHOOSE i \in from..Len(data) :
                     data[i] = "\n" /\ \A j \in from..(i - 1) : data[j] # "\n"
         IN <<nl - from>> \o ContentLengths(data, nl + 1)
    ELSE <<Len(data) - from + 1>>

\* C15: text/plain is rejected when a line is longer than 300 and accepted
\* when the content of every line, its newline not counted, is at most 300:
\* a line of 400 characters is rejected, a line of exactly 300 characters
\* followed by a newline is accepted.
C15_LineLimit ==
  (last.op = "text_plain" /\ last.returned) =>
    LET lengths == ContentLengths(last.args.data, 1) IN
    (last.result.err = "ok") <=> \A i \in 1..Len(lengths) : lengths[i] <= 300

\* What the validator does instead: the newline counts.
C15_LineLimitWithNewline ==
  (last.op = "text_plain" /\ last.returned) =>
    LET lengths == ContentLengths(last.args.data, 1)
        ends == [i \in 1..Len(lengths) |->
                   IF i < Len(lengths) \/ last.args.data[Len(last.args.data)] = "\n"
                     THEN 1 ELSE 0] IN
    (last.result.err = "ok")
       <=> \A i \in 1..Len(lengths) : lengths[i] + ends[i] <= 300

\* The response of a lookup reports the id as confirmed: the response has
\* the checksum of the id, and the entry under it is the entry of this id.
Confirmed(id, found) ==
  id.csum \in DOMAIN found /\ found[id.csum] = Str(id)

\* C16: a lookup reports every id asked for in exactly one of missing and
\* confirmed, confirmed exactly when an entry with that exact canonical id is
\* stored (an id whose checksum differs from a stored one is missing).
C16_LookupPartition ==
  last.op = "lookup" =>
    \A i \in 1..Len(last.ids) :
      Confirmed(last.ids[i], last.found) <=> Str(last.ids[i]) \in DOMAIN entries

\* The same for lookups that ask for no two ids with the same checksum.
C16_LookupPartitionDistinct ==
  (last.op = "lookup"
     /\ \A i, j \in 1..Len(last.ids) :
          last.ids[i].csum = last.ids[j].csum => last.ids[i] = last.ids[j]) =>
    \A i \in 1..Len(last.ids) :
      Confirmed(last.ids[i], last.found) <=> Str(last.ids[i]) \in DOMAIN entries

\* C16, second half: a lookup leaves the store unchanged.
C16_LookupReadsOnly ==
  [][last'.op = "lookup" /\ last' # last
       => entries' = entries /\ inline' = inline]_vars

\* The sides fit the action: add has only a new side, delete only an old
\* one, modify both with one path, copy and rename both with two paths.
SidesFit(old, new, action) ==
  LET present(x) == x.t = "Diffable" IN
  \/ action = "add" /\ old = NoneV /\ present(new)
  \/ action = "delete" /\ new = NoneV /\ present(old)
  \/ action = "modify" /\ present(old) /\ present(new) /\ old.path = new.path
  \/ action \in {"copy", "rename"} /\ present(old) /\ present(new)
       /\ old.path # new.path

\* C17: a DiffablePair that was constructed, with the action given or
\* inferred from the sides present, has one of the five actions and sides
\* that fit it; every other combination of old, new and action fails.
C17_PairInvariants ==
  (last.op = "DiffablePair" /\ last.returned) =>
    LET a == last.args
        action == IF a.action # None THEN a.action
                  ELSE IF a.old # NoneV /\ a.new # NoneV THEN "modify"
                  ELSE IF a.old # NoneV THEN "delete" ELSE "add" IN
    /\ last.result.err = "ok" =>
         /\ last.result.action \in Actions
         /\ SidesFit(last.result.old, last.result.new, last.result.action)
    /\ last.result.err = "ok" <=> SidesFit(a.old, a.new, action)

\* A pair was constructed without an action given, and modify was inferred
\* for it.
C17_Witness ==
  /\ last.op = "DiffablePair" /\ last.returned
  /\ last.args.action = None
  /\ last.result.err = "ok"
  /\ last.result.action = "modify"

\* C20: the hunk body of a modify pair with the same bytes on both sides is
\* empty, for every content and every context size n: no '@@' header, no
\* '---' or '+++' line, no context, '-' or '+' line.
C20_IdenticalNoHunks ==
  (last.op = "_diff_body" /\ last.returned /\ last.args.old = last.args.new)
    => last.result = [err |-> "ok", out |-> <<>>]

\* The same for contents without a line ending.
C20_IdenticalNoHunksOneLine ==
  (/\ last.op = "_diff_body" /\ last.returned
   /\ last.args.old = last.args.new
   /\ \A i \in 1..Len(last.args.old) : last.args.old[i] # "\n")
    => last.result = [err |-> "ok", out |-> <<>>]

\* C18: after the patches p1..pn of a patchset are materialised, the prev of
\* pi is p(i-1), none for p1, and its next is p(i+1), none for pn.
C18_PrevNextLinks ==
  (last.op = "patches_async" /\ last.returned) =>
    /\ Len(last.result) = last.args.n
    /\ \A i \in 1..last.args.n :
         /\ last.result[i].id = i
         /\ last.result[i].prev = (IF i = 1 THEN NoPatch ELSE i - 1)
         /\ last.result[i].next = (IF i = last.args.n THEN NoPatch ELSE i + 1)

\* Three or more patches were materialised and the second is linked to
\* both its neighbours.
C18_Witness ==
  /\ last.op = "patches_async" /\ last.returned
  /\ last.args.n >= 3
  /\ last.result[2].prev = 1
  /\ last.result[2].next = 3

\* The patches of the call that have at least one comment.
Commented(a) == {a.comments[c] : c \in 1..Len(a.comments)}

\* C19: next_with_comment of pi is the patch with the smallest id above i
\* that has a comment, prev_with_comment the one with the largest id below
\* i, none when there is no such patch; neither is pi itself or a patch
\* without comments.
C19_WithCommentLinks ==
  (last.op = "patches_async" /\ last.returned) =>
    \A i \in 1..last.args.n :
      LET later == {j \in Commented(last.args) : j > i}
          earlier == {j \in Commented(last.args) : j < i}
          p == last.result[i] IN
      /\ p.next_with_comment =
           (IF later = {} THEN NoPatch
            ELSE CHOOSE j \in later : \A h \in later : j <= h)
      /\ p.prev_with_comment =
           (IF earlier = {} THEN NoPatch
            ELSE CHOOSE j \in earlier : \A h \in earlier : j >= h)
      /\ p.next_with_comment # i /\ p.prev_with_comment # i
      /\ {p.next_with_comment, p.prev_with_comment}
           \subseteq Commented(last.args) \cup {NoPatch}

\* Patches without comments lie between two patches with comments, and the
\* links of these two skip them.
C19_Witness ==
  /\ last.op = "patches_async" /\ last.returned
  /\ last.args.n = 4
  /\ Commented(last.args) = {1, 4}
  /\ last.result[1].next_with_comment = 4
  /\ last.result[4].prev_with_comment = 1
  /\ last.result[2].prev_with_comment = 1

\* The lines of an output, as a set.
LinesOf(out) == {out[i] : i \in 1..Len(out)}

\* C21: the git diff of an add pair completes with a 'new file mode' line
\* and the index line 0000..githash(new); that of a delete pair completes
\* with a 'deleted file mode' line and the index line githash(old)..0000.
C21_AddDeleteIndexLines ==
  (last.op = "generate_git_diff" /\ last.returned) =>
    /\ (last.args.old = NoneV) =>
         /\ last.result.err = "ok"
         /\ <<"new file mode", last.args.new.mode>> \in LinesOf(last.result.out)
         /\ <<"index", ZeroHash, GitHash(last.args.new.data)>>
              \in LinesOf(last.result.out)
    /\ (last.args.new = NoneV) =>
         /\ last.result.err = "ok"
         /\ <<"deleted file mode", last.args.old.mode>>
              \in LinesOf(last.result.out)
         /\ <<"index", GitHash(last.args.old.data), ZeroHash>>
              \in LinesOf(last.result.out)

\* The output has a line with this keyword.
HasLine(out, keyword) == \E i \in 1..Len(out) : out[i][1] = keyword

\* C22: the git diff of a copy or rename pair has the similarity line
\* followed by the '<action> from' and '<action> to' lines; it goes on with
\* an index line and the hunk body exactly when the two contents differ,
\* and ends after the 'to' line when they are the same.
C22_CopyRenameSimilarity ==
  (last.op = "generate_git_diff" /\ last.returned
     /\ last.args.action \in {"copy", "rename"}) =>
    LET out == last.result.out
        same == last.args.old.data = last.args.new.data IN
    /\ last.result.err = "ok"
    /\ \E i \in 1..(Len(out) - 2) :
         /\ out[i][1] = "similarity index"
         /\ out[i + 1] = <<last.args.action \o " from", last.args.old.path>>
         /\ out[i + 2] = <<last.args.action \o " to", last.args.new.path>>
         /\ same => i + 2 = Len(out)
    /\ HasLine(out, "index") <=> ~same

\* C27: the git diff of a modify pair has the 'old mode' and 'new mode'
\* lines exactly when the two modes differ, and in both cases one index line
\* with the hash of the old and of the new content.
C27_ModifyModeLines ==
  (last.op = "generate_git_diff" /\ last.returned
     /\ InferredAction(last.args.old, last.args.new, last.args.action)
          = "modify") =>
    LET out == last.result.out IN
    /\ last.result.err = "ok"
    /\ (HasLine(out, "old mode") /\ HasLine(out, "new mode"))
         <=> last.args.old.mode # last.args.new.mode
    /\ Cardinality({i \in 1..Len(out) :
                      /\ out[i][1] = "index"
                      /\ out[i][2] = GitHash(last.args.old.data)
                      /\ out[i][3] = GitHash(last.args.new.data)}) = 1

\* C23: once an issue has been deleted, a GET of it ends in the error that
\* a GET of an issue id that was never created ends in
C23_DeletedLooksNeverCreated ==
  (/\ last.op = "get_issue"
   /\ last.issue <= Len(issues)
   /\ issues[last.issue].hidden)
    => last.outcome = safe_get_issue(MaxIssues + 1)

\* C30: in every issue n_patchsets is the number of its patchsets that are
\* not deleted, and 0 <= n_patchsets <= last_patchset
C30_PatchsetCounters ==
  \A i \in 1..Len(issues) :
    LET issue == issues[i] IN
    /\ issue.n_patchsets
         = Cardinality({j \in 1..Len(issue.patchsets) :
                          ~issue.patchsets[j].hidden})
    /\ 0 <= issue.n_patchsets
    /\ issue.n_patchsets <= issue.last_patchset

\* C25: whatever the interleaving of create-issue requests with collector
\* passes, every entry a committed Patchset refers to, through its data_ref
\* or through the CAS_IDs of its manifest, is still stored
C25_NoCollectedReference ==
  \A i \in 1..Len(issues) :
    \A j \in 1..Len(issues[i].patchsets) :
      ReferencedBy(issues[i].patchsets[j]) \subseteq DOMAIN entries

\* C26: a create-issue request that fails (BadData for send_message without
\* recipients, Forbidden for an insufficient proof, or any other error)
\* leaves the datastore as it was: no Issue, Patchset or Message is
\* persisted and no notification task is enqueued, although the Issue
\* entity was put before the failure was detected
C26_FailedCreateWritesNothing ==
  [][(last'.op = "create_issue" /\ last'.outcome # "ok")
       => /\ issues' = issues
          /\ entries' = entries
          /\ inline' = inline]_vars

\* C26 witness: a create-issue request whose patchset parsed, so that the
\* Issue was put, has failed on its proofs, and no issue is stored
C26_Witness ==
  /\ last.op = "create_issue"
  /\ last.outcome = "Forbidden"
  /\ issues = <<>>

\* the flags, before a prove call, of the instance the call was made on
FlagsBefore ==
  IF last.op = "prove_async" /\ last.ids = last'.ids
    THEN last.flags ELSE NewFlags

C29_LookupMatchesIteration ==
  (last.op = "IDIndexedCollection" /\ last.returned) =>
    LET c == last.result IN
    /\ \A id \in 0..(Len(c.items) + 1) :
         IF id \in c.live
           THEN getitem(c.items, id) = [err |-> "ok", item |-> id]
           ELSE getitem(c.items, id).err = "NotFound"
    /\ iter(c.items)
         = {id \in 0..(Len(c.items) + 1) : getitem(c.items, id).err = "ok"}

\* C28: for any queue of patches the generator comes to its end having
\* emitted the diff of each patch once and in the order of the queue; no
\* diff is emitted before the fetch of its patch has started, and a patch
\* is added to the preloading window only while the sizes in the window
\* sum to less than BUFFER_LIMIT
C28_FullDiffInOrder ==
  (last.op = "_full_diff_generator" /\ last.returned) =>
    LET g == last.result IN
    /\ g.err = "ok"
    /\ Len(g.out) = Len(last.args.patches)
    /\ \A k \in 1..Len(g.out) :
         /\ g.out[k].id = last.args.patches[k].id
         /\ g.out[k].id \in g.out[k].fetched
    /\ \A k \in 1..Len(g.window) : g.window[k] < BUFFER_LIMIT

=============================================================================
